---- MODULE Spec2Model ----
(***************************************************************************)
(* Term/definition extraction pipeline of the glossary readers under       *)
(* src/src/main: the segmenters of the reader classes, their               *)
(* de-duplication and writers, and the downstream glossary loader.         *)
(*                                                                         *)
(* Text is modelled as TLA+ strings (Len, SubSeq and \o act on them as on  *)
(* sequences of characters). A document is the page text the PDF backend   *)
(* hands to a reader: a sequence of lines, with PageBreak items between    *)
(* pages.                                                                  *)
(*                                                                         *)
(* Beside the pipeline (Spec), the module holds the construction of the    *)
(* readers on a file system with its PDF cache (SpecReaders), the batch    *)
(* loops of pdf_reader.main and combine_files (SpecBatch), and single      *)
(* calls of the continuation classifier and of the conversation and        *)
(* dataset functions of prepare_training_data (SpecCalls).                 *)
(***************************************************************************)
EXTENDS Integers, Sequences, FiniteSets, TLC


(***************************************************************************)
(* Characters and the str methods the readers use                          *)
(***************************************************************************)
UpperStr == "ABCDEFGHIJKLMNOPQRSTUVWXYZ"
LowerStr == "abcdefghijklmnopqrstuvwxyz"

Ch(s, i) == SubSeq(s, i, i)

UpperSet == {Ch(UpperStr, i) : i \in 1..26}
LowerSet == {Ch(LowerStr, i) : i \in 1..26}
DigitSet == {"0", "1", "2", "3", "4", "5", "6", "7", "8", "9"}
Letters == UpperSet \cup LowerSet

\* The characters Python's str.strip(), str.split() and the regex class \s
\* treat as white space, as far as a TLA+ string can hold them.
WhiteSpace == {" ", "\t", "\n", "\r", "\f"}

\* The regex class \w (letters, digits, underscore).
WordChars == Letters \cup DigitSet \cup {"_"}

\* The en dash (U+2013) and the em dash (U+2014) of the readers' patterns.
\* A TLA+ string holds ASCII only, so two otherwise unused characters stand
\* for them.
EnDash == "~"
EmDash == "^"

LowerMap == [c \in UpperSet |-> Ch(LowerStr, CHOOSE i \in 1..26 : Ch(UpperStr, i) = c)]

LowerChar(c) == IF c \in UpperSet THEN LowerMap[c] ELSE c
UpperChar(c) == IF c \in LowerSet THEN CHOOSE u \in UpperSet : LowerMap[u] = c ELSE c

\* A position, or d when the position is 0 ("not found").
OrElse(p, d) == IF p = 0 THEN d ELSE p

\* The least position in lo..hi whose character is in class, 0 when there
\* is none (the search halves the range, so its depth stays logarithmic).
RECURSIVE FirstIn(_, _, _, _)
FirstIn(s, class, lo, hi) ==
    IF lo > hi THEN 0
    ELSE IF lo = hi THEN (IF Ch(s, lo) \in class THEN lo ELSE 0)
    ELSE OrElse(FirstIn(s, class, lo, (lo + hi) \div 2),
                FirstIn(s, class, (lo + hi) \div 2 + 1, hi))

\* The least position in lo..hi whose character is not in class, 0 when
\* there is none.
RECURSIVE FirstNotIn(_, _, _, _)
FirstNotIn(s, class, lo, hi) ==
    IF lo > hi THEN 0
    ELSE IF lo = hi THEN (IF Ch(s, lo) \notin class THEN lo ELSE 0)
    ELSE OrElse(FirstNotIn(s, class, lo, (lo + hi) \div 2),
                FirstNotIn(s, class, (lo + hi) \div 2 + 1, hi))

\* The greatest position in lo..hi whose character is not in class, 0 when
\* there is none.
RECURSIVE LastNotIn(_, _, _, _)
LastNotIn(s, class, lo, hi) ==
    IF lo > hi THEN 0
    ELSE IF lo = hi THEN (IF Ch(s, lo) \notin class THEN lo ELSE 0)
    ELSE OrElse(LastNotIn(s, class, (lo + hi) \div 2 + 1, hi),
                LastNotIn(s, class, lo, (lo + hi) \div 2))

\* The greatest position in lo..hi whose character is in class, 0 when
\* there is none.
RECURSIVE LastIn(_, _, _, _)
LastIn(s, class, lo, hi) ==
    IF lo > hi THEN 0
    ELSE IF lo = hi THEN (IF Ch(s, lo) \in class THEN lo ELSE 0)
    ELSE OrElse(LastIn(s, class, (lo + hi) \div 2 + 1, hi),
                LastIn(s, class, lo, (lo + hi) \div 2))

\* The end (exclusive) of the run of class characters that starts at i.
RunEnd(s, class, i) == OrElse(FirstNotIn(s, class, i, Len(s)), Len(s) + 1)

\* str.lower(): every character lower-cased.
Lower(s) ==
    LET RECURSIVE LowerRange(_, _)
        LowerRange(lo, hi) ==
            IF lo > hi THEN ""
            ELSE IF lo = hi THEN LowerChar(Ch(s, lo))
            ELSE LowerRange(lo, (lo + hi) \div 2) \o LowerRange((lo + hi) \div 2 + 1, hi)
    IN  LowerRange(1, Len(s))

\* str.isupper(): at least one cased character and no lowercase one.
IsUpperStr(s) ==
    /\ FirstIn(s, UpperSet, 1, Len(s)) # 0
    /\ FirstIn(s, LowerSet, 1, Len(s)) = 0

\* str.islower(): at least one cased character and no uppercase one.
IsLowerStr(s) ==
    /\ FirstIn(s, LowerSet, 1, Len(s)) # 0
    /\ FirstIn(s, UpperSet, 1, Len(s)) = 0

\* The first position at or after i that holds no white space (Len(s) + 1
\* when there is none).
FirstNonSpace(s, i) == RunEnd(s, WhiteSpace, i)

\* str.strip(): the white space at both ends goes.
Strip(s) == SubSeq(s, FirstNonSpace(s, 1), LastNotIn(s, WhiteSpace, 1, Len(s)))

\* The 1-based position of the first occurrence of sub in s at or after
\* position i; 0 when there is none (str.find, shifted by one).
FindFrom(s, sub, i) ==
    LET RECURSIVE FindIn(_, _)
        FindIn(lo, hi) ==
            IF lo > hi THEN 0
            ELSE IF lo = hi THEN (IF SubSeq(s, lo, lo + Len(sub) - 1) = sub THEN lo ELSE 0)
            ELSE OrElse(FindIn(lo, (lo + hi) \div 2), FindIn((lo + hi) \div 2 + 1, hi))
    IN  FindIn(i, Len(s) - Len(sub) + 1)

\* sub in s
Contains(s, sub) == FindFrom(s, sub, 1) # 0

\* str.startswith()
StartsWith(s, prefix) ==
    Len(prefix) <= Len(s) /\ SubSeq(s, 1, Len(prefix)) = prefix

\* str.endswith()
EndsWith(s, suffix) ==
    Len(suffix) <= Len(s) /\ SubSeq(s, Len(s) - Len(suffix) + 1, Len(s)) = suffix

\* str.split(sep): every piece between occurrences of sep, empty ones
\* kept (SplitFrom: from position pos on, p being the first occurrence of
\* sep at or after pos, 0 when there is none).
SplitOn(s, sep) ==
    LET RECURSIVE SplitFrom(_, _)
        SplitFrom(pos, p) ==
            IF p = 0 THEN <<SubSeq(s, pos, Len(s))>>
            ELSE <<SubSeq(s, pos, p - 1)>>
                 \o SplitFrom(p + Len(sep), FindFrom(s, sep, p + Len(sep)))
    IN  SplitFrom(1, FindFrom(s, sep, 1))

\* str.split(sep, 1): at most one split, at the first occurrence of sep.
SplitFirst(s, sep) ==
    LET Cut(p) == IF p = 0 THEN <<s>>
                  ELSE <<SubSeq(s, 1, p - 1), SubSeq(s, p + Len(sep), Len(s))>>
    IN  Cut(FindFrom(s, sep, 1))

\* str.split(): the maximal runs of non-space characters (WordsFrom: from
\* the word that starts at b on, e being the end, exclusive, of that word).
SplitWords(s) ==
    LET WordEnd(i) == OrElse(FirstIn(s, WhiteSpace, i, Len(s)), Len(s) + 1)
        RECURSIVE WordsFrom(_, _)
        WordsFrom(b, e) ==
            IF b > Len(s) THEN <<>>
            ELSE <<SubSeq(s, b, e - 1)>>
                 \o WordsFrom(FirstNonSpace(s, e), WordEnd(FirstNonSpace(s, e)))
    IN  WordsFrom(FirstNonSpace(s, 1), WordEnd(FirstNonSpace(s, 1)))

\* sep.join(parts)
RECURSIVE Join(_, _)
Join(parts, sep) ==
    IF parts = <<>> THEN ""
    ELSE IF Len(parts) = 1 THEN parts[1]
    ELSE parts[1] \o sep \o Join(Tail(parts), sep)

\* re.sub(r'\s+', ' ', s): the first character of a run of white space
\* becomes a space, the rest of the run goes.
CollapseSpaces(s) ==
    LET RECURSIVE CollapseRange(_, _)
        CollapseRange(lo, hi) ==
            IF lo > hi THEN ""
            ELSE IF lo = hi
            THEN (IF Ch(s, lo) \notin WhiteSpace THEN Ch(s, lo)
                  ELSE IF lo > 1 /\ Ch(s, lo - 1) \in WhiteSpace THEN "" ELSE " ")
            ELSE CollapseRange(lo, (lo + hi) \div 2)
                 \o CollapseRange((lo + hi) \div 2 + 1, hi)
    IN  CollapseRange(1, Len(s))

\* re.sub(r'\s+', ' ', s).strip()
Normalise(s) == Strip(CollapseSpaces(s))

HasText(t) == t # ""

\* [line.strip() for line in lines if line.strip()]
StrippedNonEmpty(lines) ==
    SelectSeq([i \in 1..Len(lines) |-> Strip(lines[i])], HasText)

\* A (term, definition) tuple.
Pair(t, d) == [term |-> t, definition |-> d]

\* Optional[str]: <<>> is None, <<s>> is the string s.
None == <<>>
Some(s) == <<s>>

\* Python truth of an Optional[str]: neither None nor the empty string.
Truthy(opt) == opt # None /\ opt[1] # ""

(***************************************************************************)
(* SectionPDFReader: colon-separated terms with section letters            *)
(***************************************************************************)

\* The locals of the scan: current_term, current_def_lines, terms_and_defs.
SectionStart == [term |-> None, defs |-> <<>>, out |-> <<>>]

\* re.match(r'^[A-Z]$', line)
IsSectionMarker(line) ==
    \/ Len(line) = 1 /\ line \in UpperSet
    \/ Len(line) = 2 /\ Ch(line, 1) \in UpperSet /\ Ch(line, 2) = "\n"

\* The flush of the pending pair: appended only when both the term and the
\* list of definition lines are truthy.
FlushPending(st) ==
    IF Truthy(st.term) /\ st.defs # <<>>
    THEN Append(st.out, Pair(st.term[1], Join(st.defs, " ")))
    ELSE st.out

\* A variant of SectionOpen that starts the new pair without saving the
\* pending one: the pair before every new term is lost.
SectionOpenWithoutFlush(st, parts) ==
    [term |-> Some(Strip(parts[1])),
     defs |-> <<Strip(parts[2])>>,
     out  |-> st.out]

\* "term, definition = line.split(':', 1)": the new pending pair.
SectionOpen(st, parts) ==
    [term |-> Some(Strip(parts[1])),
     defs |-> <<Strip(parts[2])>>,
     out  |-> FlushPending(st)]

\* A variant of SectionStep that leaves a line without a colon out of the
\* pending definition.
SectionStepWithoutContinuation(st, line) ==
    IF line = "" THEN st
    ELSE IF IsSectionMarker(line) THEN st
    ELSE IF Contains(line, ":") THEN SectionOpen(st, SplitFirst(line, ":"))
    ELSE st

\* One iteration of the loop over the lines, line being the stripped line.
SectionStep(st, line) ==
    IF line = "" THEN st
    ELSE IF IsSectionMarker(line) THEN st
    ELSE IF Contains(line, ":") THEN SectionOpen(st, SplitFirst(line, ":"))
    ELSE IF Truthy(st.term) THEN [st EXCEPT !.defs = Append(st.defs, line)]
    ELSE st

\* The clean-up loop: single-letter terms are skipped, white space is
\* normalised and the length checks decide.
SectionKeep(p) ==
    /\ ~(Len(Strip(p.term)) <= 1)
    /\ Len(Normalise(p.term)) > 1
    /\ Len(Normalise(p.definition)) > 5

\* The pairs of kept with their white space normalised.
NormaliseAll(kept) ==
    [i \in 1..Len(kept) |-> Pair(Normalise(kept[i].term), Normalise(kept[i].definition))]

\* extract_terms_and_definitions: the loop over the lines, the flush of the
\* last pending pair and the clean-up loop.
SectionExtract(text) ==
    LET RECURSIVE Scan(_, _)
        Scan(st, lines) ==
            IF lines = <<>> THEN st
            ELSE Scan(SectionStep(st, Strip(lines[1])), Tail(lines))
    IN  IF text = "" THEN <<>>
        ELSE NormaliseAll(SelectSeq(
                 FlushPending(Scan(SectionStart, SplitOn(text, "\n"))),
                 SectionKeep))

(***************************************************************************)
(* ThomasWillingGlossaryReader: colon-separated terms, part-of-speech      *)
(* markers removed from the term                                           *)
(***************************************************************************)

\* The start of the white space that ends just before position q, no
\* further back than pos.
SpaceStart(s, pos, q) == OrElse(LastNotIn(s, WhiteSpace, pos, q - 1), pos - 1) + 1

\* re.sub(r'\s*\(n\.\)\s*|\s*\(v\.\)\s*|\s*\(adj\.\)\s*', '', s): from
\* position pos on, hits being the positions of the first occurrence of
\* each marker at or after pos and q the least of them that is not 0, the
\* leftmost marker goes with the white space around it.
WithoutPartOfSpeech(s) ==
    LET PartOfSpeech == <<"(n.)", "(v.)", "(adj.)">>
        LeastOf(found) ==
            IF found = {} THEN 0 ELSE CHOOSE x \in found : \A y \in found : x <= y
        LeastFound(ps) == LeastOf({ps[i] : i \in 1..Len(ps)} \ {0})
        MarkerHits(pos) == [k \in 1..3 |-> FindFrom(s, PartOfSpeech[k], pos)]
        RECURSIVE Remove(_, _, _)
        Remove(pos, hits, q) ==
            IF q = 0 THEN SubSeq(s, pos, Len(s))
            ELSE LET Resume(stop) ==
                         LET Again(nexthits) == Remove(stop, nexthits, LeastFound(nexthits))
                         IN  Again(MarkerHits(stop))
                 IN  SubSeq(s, pos, SpaceStart(s, pos, q) - 1)
                     \o Resume(FirstNonSpace(s, q + Len(PartOfSpeech[CHOOSE k \in 1..3 : hits[k] = q])))
        Go(hits) == Remove(1, hits, LeastFound(hits))
    IN  Go(MarkerHits(1))

ThomasOpen(st, parts) ==
    [term |-> Some(Strip(WithoutPartOfSpeech(parts[1]))),
     defs |-> <<Strip(parts[2])>>,
     out  |-> FlushPending(st)]

\* One iteration of the loop over the lines, line being the stripped line.
ThomasStep(st, line) ==
    IF line = "" THEN st
    ELSE IF Contains(line, ":") THEN ThomasOpen(st, SplitFirst(line, ":"))
    ELSE IF Truthy(st.term) THEN [st EXCEPT !.defs = Append(st.defs, line)]
    ELSE st

\* The validation of the cleaned pair.
ThomasKeep(p) ==
    /\ Len(Normalise(p.term)) > 1
    /\ Len(Normalise(p.definition)) > 5

ThomasExtract(text) ==
    LET RECURSIVE Scan(_, _)
        Scan(st, lines) ==
            IF lines = <<>> THEN st
            ELSE Scan(ThomasStep(st, Strip(lines[1])), Tail(lines))
    IN  IF text = "" THEN <<>>
        ELSE NormaliseAll(SelectSeq(
                 FlushPending(Scan(SectionStart, SplitOn(text, "\n"))),
                 ThomasKeep))

(***************************************************************************)
(* HyphenPDFReader: two-column pages, terms closed by a colon or a dash    *)
(***************************************************************************)

\* The class [:–-] of the reader's patterns.
HyphenSeparators == {":", EnDash, "-"}

\* re.match(r'^([^:–-]+?)(?:[:–-])\s*(.+)$', line) on a stripped line:
\* <<>> when there is no match, else <<group(1), group(2)>>. Group 1 holds
\* no separator, so it ends at the first one, at position p; the rest,
\* less its leading white space, starts at q and must not be empty.
HyphenTermMatch(line) ==
    LET Groups(p, q) ==
            IF p >= 2 /\ q <= Len(line)
            THEN <<SubSeq(line, 1, p - 1), SubSeq(line, q, Len(line))>>
            ELSE <<>>
        TermAt(p) == Groups(p, FirstNonSpace(line, p + 1))
    IN  TermAt(FirstIn(line, HyphenSeparators, 1, Len(line)))

\* re.match(r'^[A-Z][^:–-]+[:–-]', line)
HyphenLooksLikeTerm(line) ==
    /\ Len(line) >= 1
    /\ Ch(line, 1) \in UpperSet
    /\ FirstIn(line, HyphenSeparators, 2, Len(line)) >= 3

HyphenFlush(st) ==
    IF Truthy(st.term) /\ st.defs # <<>>
    THEN Append(st.out, Pair(Strip(st.term[1]), Strip(Join(st.defs, " "))))
    ELSE st.out

\* A variant of HyphenStep that appends every line the term pattern does
\* not match to the pending definition.
HyphenStepWithoutTermLookTest(st, line) ==
    LET Take(m) ==
            IF m # <<>>
            THEN [term |-> Some(m[1]), defs |-> <<m[2]>>, out |-> HyphenFlush(st)]
            ELSE IF Truthy(st.term) /\ line # ""
            THEN [st EXCEPT !.defs = Append(st.defs, line)]
            ELSE st
    IN  IF Contains(line, "Penn State") \/ Contains(line, "Financial and Life Skills Center")
        THEN st
        ELSE Take(HyphenTermMatch(line))

\* One iteration of the loop over the stripped, non-empty lines: header
\* lines are skipped; below the header test, m is the match of the term
\* pattern on the line.
HyphenStep(st, line) ==
    LET Take(m) ==
            IF m # <<>>
            THEN [term |-> Some(m[1]), defs |-> <<m[2]>>, out |-> HyphenFlush(st)]
            ELSE IF Truthy(st.term) /\ line # ""
            THEN (IF ~HyphenLooksLikeTerm(line)
                  THEN [st EXCEPT !.defs = Append(st.defs, line)]
                  ELSE st)
            ELSE st
    IN  IF Contains(line, "Penn State") \/ Contains(line, "Financial and Life Skills Center")
        THEN st
        ELSE Take(HyphenTermMatch(line))

\* "Remove any partial terms or definitions", on the normalised pair.
HyphenKeep(p) ==
    LET Valid(term, definition) ==
            /\ Len(term) > 2
            /\ Len(definition) > 5
            /\ ~StartsWith(Lower(definition), Lower(term))
    IN  Valid(Normalise(p.term), Normalise(p.definition))

HyphenExtract(text) ==
    LET RECURSIVE Scan(_, _)
        Scan(st, lines) ==
            IF lines = <<>> THEN st ELSE Scan(HyphenStep(st, lines[1]), Tail(lines))
    IN  IF text = "" THEN <<>>
        ELSE NormaliseAll(SelectSeq(
                 HyphenFlush(Scan(SectionStart, StrippedNonEmpty(SplitOn(text, "\n")))),
                 HyphenKeep))

(***************************************************************************)
(* ColumnGlossaryReader: capitalization runs                               *)
(***************************************************************************)

CONTINUATION_WORDS ==
    { "It", "This", "That", "These", "Those", "They", "He", "She", "You",
      "Your", "Their", "Its", "His", "Her", "We", "Our", "Such", "Some",
      "Therefore", "Thus", "Consequently", "Hence", "So", "As a result",
      "Accordingly", "For this reason", "Because of this" }

\* is_capitalized_word: the conditional expression takes its else branch,
\* True, for every word of at most one character.
is_capitalized_word(word) ==
    IF Len(word) > 1
    THEN /\ word # ""
         /\ Ch(word, 1) \in UpperSet
         /\ IsLowerStr(SubSeq(word, 2, Len(word)))
    ELSE TRUE

\* re.split(r'(?<=[.])\s+(?=[A-Z])', text) from position pos on, the next
\* period looked for from position from on: the text is cut at every run of
\* white space that follows a period and is followed by an uppercase
\* letter.
RECURSIVE ColumnBlocks(_, _, _)
ColumnBlocks(text, pos, from) ==
    LET Cut(d, j) ==
            IF d = 0 THEN <<SubSeq(text, pos, Len(text))>>
            ELSE IF j > d + 1 /\ j <= Len(text) /\ Ch(text, j) \in UpperSet
            THEN <<SubSeq(text, pos, d)>> \o ColumnBlocks(text, j, j)
            ELSE ColumnBlocks(text, pos, d + 1)
        AtPeriod(d) == Cut(d, FirstNonSpace(text, d + 1))
    IN  AtPeriod(FindFrom(text, ".", from))

\* A variant of ColumnMarkerTest without the test for a second line: the
\* read of lines[1] in a block of one line ends with IndexError.
ColumnMarkerTestWithoutLengthTest(lines) ==
    IF ~(Len(lines[1]) = 1) THEN "false"
    ELSE IF ~IsUpperStr(lines[1]) THEN "false"
    ELSE IF ~(Len(lines) > 1) THEN "IndexError"
    ELSE IF UpperChar(Ch(lines[2], 1)) = lines[1] THEN "true"
    ELSE "false"

\* The test for a lone section letter above the first term of a block:
\* "true", "false", or the exception its evaluation ends with. Python's and
\* stops at the first false operand, so lines[1] is read only when the
\* block has a second line.
ColumnMarkerTest(lines) ==
    IF ~(Len(lines[1]) = 1) THEN "false"
    ELSE IF ~IsUpperStr(lines[1]) THEN "false"
    ELSE IF ~(Len(lines) > 1) THEN "false"
    ELSE IF Len(lines[2]) = 0 THEN "IndexError"
    ELSE IF UpperChar(Ch(lines[2], 1)) = lines[1] THEN "true"
    ELSE "false"

\* A variant of ColumnFlush that keeps a definition whatever its end.
ColumnFlushWithoutPeriodTest(st) ==
    IF Truthy(st.term) /\ st.defs # <<>>
    THEN Append(st.out, Pair(st.term[1], Join(st.defs, " ")))
    ELSE st.out

\* "Save previous term-definition pair": only a definition that ends with a
\* period is kept.
ColumnFlush(st) ==
    IF Truthy(st.term) /\ st.defs # <<>> /\ EndsWith(Strip(Join(st.defs, " ")), ".")
    THEN Append(st.out, Pair(st.term[1], Join(st.defs, " ")))
    ELSE st.out

Min(a, b) == IF a < b THEN a ELSE b
Max(a, b) == IF a > b THEN a ELSE b

\* The rule ladder that picks the words of the term, first_four being
\* words[:4]; the loop of the fallback rule lets word i join the term while
\* the word after it is capitalized.
ColumnTermWords(words) ==
    LET Rules(first_four) ==
            LET RECURSIVE ShortTerm(_, _)
                ShortTerm(term_words, i) ==
                    IF i >= Min(3, Len(first_four)) THEN term_words
                    ELSE IF i < Len(first_four) - 1 /\ is_capitalized_word(first_four[i + 2])
                    THEN ShortTerm(Append(term_words, first_four[i + 1]), i + 1)
                    ELSE term_words
            IN  IF /\ Len(first_four) >= 3
                   /\ is_capitalized_word(first_four[1])
                   /\ is_capitalized_word(first_four[2])
                   /\ ~is_capitalized_word(first_four[3])
                THEN <<first_four[1]>>
                ELSE IF /\ Len(first_four) >= 4
                        /\ is_capitalized_word(first_four[1])
                        /\ is_capitalized_word(first_four[2])
                        /\ is_capitalized_word(first_four[3])
                        /\ ~is_capitalized_word(first_four[4])
                THEN <<first_four[1], first_four[2]>>
                ELSE IF /\ Len(first_four) = 4
                        /\ \A i \in 1..4 : is_capitalized_word(first_four[i])
                        /\ Len(words) > 4
                        /\ ~is_capitalized_word(words[5])
                THEN <<first_four[1], first_four[2], first_four[3]>>
                ELSE ShortTerm(<<first_four[1]>>, 1)
    IN  Rules(SubSeq(words, 1, Min(Len(words), 4)))

ColumnStart == [term |-> None, defs |-> <<>>, out |-> <<>>, exc |-> ""]

\* One iteration of the loop over the blocks, lines being the stripped,
\* non-empty lines of the block: the section marker test (marker being its
\* result), the joining of the lines, the word count, the continuation
\* test and "Set up new term and definition", after the previous pair is
\* saved.
ColumnStep(st, lines) ==
    LET NewTerm(words, term_words) ==
            [term |-> Some(Join(term_words, " ")),
             defs |-> <<Join(SubSeq(words, Len(term_words) + 1, Len(words)), " ")>>,
             out  |-> ColumnFlush(st),
             exc  |-> ""]
        Words(sentence, words) ==
            IF Len(words) < 2 THEN st
            ELSE IF words[1] \in CONTINUATION_WORDS /\ Truthy(st.term)
            THEN [st EXCEPT !.defs = Append(st.defs, sentence)]
            ELSE NewTerm(words, ColumnTermWords(words))
        Sentence(sentence) == Words(sentence, SplitWords(sentence))
        Lines(marker) ==
            IF marker \notin {"true", "false"} THEN [st EXCEPT !.exc = marker]
            ELSE Sentence(Join(IF marker = "true" THEN Tail(lines) ELSE lines, " "))
    IN  IF lines = <<>> THEN st ELSE Lines(ColumnMarkerTest(lines))

\* extract_term_and_definition: the pairs returned and the exception the
\* call ends with ("" when it returns).
ColumnExtract(text) ==
    LET RECURSIVE Scan(_, _)
        Scan(st, blocks) ==
            IF blocks = <<>> \/ st.exc # "" THEN st
            ELSE Scan(ColumnStep(st, StrippedNonEmpty(SplitOn(blocks[1], "\n"))),
                      Tail(blocks))
        Result(st) ==
            IF st.exc # "" THEN [exc |-> st.exc, out |-> <<>>]
            ELSE [exc |-> "", out |-> ColumnFlush(st)]
    IN  Result(Scan(ColumnStart, ColumnBlocks(text, 1, 1)))

(***************************************************************************)
(* WAGovGlossaryReader: terms closed by a hyphen or an em dash             *)
(***************************************************************************)

\* [A-Za-z0-9\s\(\)/,], the characters of a term after its first letter.
WATermChars == Letters \cup DigitSet \cup WhiteSpace \cup {"(", ")", "/", ","}

\* [—-]
WADashes == {EmDash, "-"}

\* The lookahead (?=(?:[A-Z][A-Za-z\s\(\)]+?\s*[—-])|$) at position e: an
\* uppercase letter, at least one more term character and then, after the
\* run of term characters (which takes the white space in and ends at r),
\* a dash; or "$" without re.MULTILINE: the end of the text, or the
\* position of a newline that ends the text.
WALookahead(text, e) ==
    LET NextTerm(r) ==
            /\ e <= Len(text)
            /\ Ch(text, e) \in UpperSet
            /\ r >= e + 2
            /\ r <= Len(text)
            /\ Ch(text, r) \in WADashes
    IN  \/ NextTerm(RunEnd(text, Letters \cup WhiteSpace \cup {"(", ")"}, e + 1))
        \/ e = Len(text) + 1
        \/ e = Len(text) /\ Ch(text, e) = "\n"

\* The least e in lo..hi at which the lookahead holds, 0 when there is none.
RECURSIVE WAFirstLookahead(_, _, _)
WAFirstLookahead(text, lo, hi) ==
    IF lo > hi THEN 0
    ELSE IF lo = hi THEN (IF WALookahead(text, lo) THEN lo ELSE 0)
    ELSE OrElse(WAFirstLookahead(text, lo, (lo + hi) \div 2),
                WAFirstLookahead(text, (lo + hi) \div 2 + 1, hi))

\* Group 2, ([^A-Z][^—]*?), tried from start m down to lowest (the white
\* space after the dash is given back one character at a time): <<m, e>> for
\* the first start that works, e being the least end at which the lookahead
\* holds with no em dash before it; <<0, 0>> when no start works.
RECURSIVE WADefinition(_, _, _)
WADefinition(text, m, lowest) ==
    LET Try(e) ==
            IF m <= Len(text) /\ Ch(text, m) \notin UpperSet /\ e # 0 THEN <<m, e>>
            ELSE WADefinition(text, m - 1, lowest)
    IN  IF m < lowest THEN <<0, 0>>
        ELSE Try(WAFirstLookahead(text, m + 1,
                     OrElse(FindFrom(text, EmDash, m + 1), Len(text) + 1)))

\* The match of the whole pattern that starts at the uppercase letter at i,
\* r being the end of the run of term characters from i + 1 on: <<>> when
\* there is none, else [term, definition, stop]. The term, text[i..j-1],
\* runs to the dash, less the white space before it (never less than one
\* character after the first letter); the definition is at g.
WAMatchAt(text, i) ==
    LET Groups(j, g) ==
            IF g[1] # 0
            THEN [term |-> SubSeq(text, i, j - 1),
                  definition |-> SubSeq(text, g[1], g[2] - 1),
                  stop |-> g[2]]
            ELSE <<>>
        MatchRun(r) ==
            IF r >= i + 2 /\ r <= Len(text) /\ Ch(text, r) \in WADashes
            THEN Groups(Max(LastNotIn(text, WhiteSpace, i + 1, r - 1) + 1, i + 2),
                        WADefinition(text, FirstNonSpace(text, r + 1), r + 1))
            ELSE <<>>
    IN  MatchRun(RunEnd(text, WATermChars, i + 1))

\* re.finditer(pattern, text, re.DOTALL) from position pos on: the matches
\* from left to right, none overlapping.
RECURSIVE WAMatches(_, _)
WAMatches(text, pos) ==
    LET Found(i, m) ==
            IF m = <<>> THEN WAMatches(text, i + 1)
            ELSE <<m>> \o WAMatches(text, m.stop)
        AtUpper(i) == IF i = 0 THEN <<>> ELSE Found(i, WAMatchAt(text, i))
    IN  AtUpper(FirstIn(text, UpperSet, pos, Len(text)))

\* str.rstrip('. ')
RStripDotSpace(s) == SubSeq(s, 1, LastNotIn(s, {".", " "}, 1, Len(s)))

WAFlush(st) ==
    IF Truthy(st.term) /\ st.defs # <<>>
    THEN Append(st.out, Pair(st.term[1], Join(st.defs, " ")))
    ELSE st.out

\* A variant of WAStep in which every match but a section letter opens a
\* pair.
WAStepWithoutMerge(st, term, definition) ==
    IF Len(term) = 1 /\ term \in UpperSet THEN st
    ELSE [term |-> Some(term), defs |-> <<definition>>, out |-> WAFlush(st)]

\* One iteration of the loop over the matches, on the cleaned term and
\* definition of the match; a definition continues the previous one when
\* "definition[0].islower() if definition else False".
WAStep(st, term, definition) ==
    IF Len(term) = 1 /\ term \in UpperSet THEN st
    ELSE IF /\ Truthy(st.term)
            /\ (IF definition # "" THEN Ch(definition, 1) \in LowerSet ELSE FALSE)
    THEN [st EXCEPT !.defs = Append(st.defs, definition)]
    ELSE [term |-> Some(term), defs |-> <<definition>>, out |-> WAFlush(st)]

WAGovExtract(text) ==
    LET RECURSIVE Scan(_, _)
        Scan(st, matches) ==
            IF matches = <<>> THEN st
            ELSE Scan(WAStep(st, RStripDotSpace(Strip(matches[1].term)),
                             CollapseSpaces(Strip(matches[1].definition))),
                      Tail(matches))
    IN  IF text = "" THEN <<>>
        ELSE WAFlush(Scan(SectionStart, WAMatches(text, 1)))
(***************************************************************************)
(* LinePDFReader: a term on a line of its own, the definition below it     *)
(***************************************************************************)

\* The end (exclusive) of the first occurrence of lit in s at or after
\* position a, 0 when there is none or a is 0: where a lazy ".*?" followed
\* by lit stops.
After(s, lit, a) ==
    LET End(p) == IF p = 0 THEN 0 ELSE p + Len(lit)
    IN  IF a = 0 THEN 0 ELSE End(FindFrom(s, lit, a))

NoMatch == <<0, 0>>

\* The match from i to e (exclusive), when both were found.
Span(i, e) == IF i = 0 \/ e = 0 THEN NoMatch ELSE <<i, e>>

\* r'Spring \d{4}.*?RESOURCE.*?\n' (lt is the text lower-cased: the
\* patterns are applied with re.IGNORECASE, and with re.DOTALL).
RECURSIVE SpringHeader(_, _, _)
SpringHeader(s, lt, pos) ==
    LET At(i) ==
            IF i = 0 THEN NoMatch
            ELSE IF i + 10 <= Len(s) /\ FirstNotIn(s, DigitSet, i + 7, i + 10) = 0
            THEN Span(i, After(s, "\n", After(lt, "resource", i + 11)))
            ELSE SpringHeader(s, lt, i + 1)
    IN  At(FindFrom(lt, "spring ", pos))

\* r'\d+ of \d+.*?\n'
RECURSIVE PageCount(_, _, _)
PageCount(s, lt, pos) ==
    LET Run(i, m) ==
            IF /\ m + 4 <= Len(s)
               /\ SubSeq(lt, m, m + 3) = " of "
               /\ Ch(s, m + 4) \in DigitSet
            THEN Span(i, After(s, "\n", m + 5))
            ELSE PageCount(s, lt, m)
        At(i) == IF i = 0 THEN NoMatch ELSE Run(i, RunEnd(s, DigitSet, i))
    IN  At(FirstIn(s, DigitSet, pos, Len(s)))

\* r'Consumer Financial\s+Protection Bureau.*?\n'
RECURSIVE BureauFooter(_, _, _)
BureauFooter(s, lt, pos) ==
    LET Gap(i, w) ==
            IF /\ w > i + 18
               /\ w + 16 <= Len(s)
               /\ SubSeq(lt, w, w + 16) = "protection bureau"
            THEN Span(i, After(s, "\n", w + 17))
            ELSE BureauFooter(s, lt, i + 1)
        At(i) == IF i = 0 THEN NoMatch ELSE Gap(i, FirstNonSpace(s, i + 18))
    IN  At(FindFrom(lt, "consumer financial", pos))

\* The leftmost match of patterns[k] at or after position pos:
\*   2  r'Financial terms glossary.*?\n'
\*   3  r'BUILDING BLOCKS.*?RESOURCE.*?\n'
\*   4  r'\[\]\(https://.*?\)'
\*   7  r'^[A-Z]\s*$', which without re.MULTILINE matches only a text that
\*      is one letter (of either case, under re.IGNORECASE) and white space.
LineHeaderMatch(k, s, lt, pos) ==
    LET Glossary(i) == IF i = 0 THEN NoMatch ELSE Span(i, After(s, "\n", i + 24))
        Blocks(i) ==
            IF i = 0 THEN NoMatch
            ELSE Span(i, After(s, "\n", After(lt, "resource", i + 15)))
        Link(i) == IF i = 0 THEN NoMatch ELSE Span(i, After(s, ")", i + 11))
    IN  CASE k = 1 -> SpringHeader(s, lt, pos)
          [] k = 2 -> Glossary(FindFrom(lt, "financial terms glossary", pos))
          [] k = 3 -> Blocks(FindFrom(lt, "building blocks", pos))
          [] k = 4 -> Link(FindFrom(lt, "[](https://", pos))
          [] k = 5 -> PageCount(s, lt, pos)
          [] k = 6 -> BureauFooter(s, lt, pos)
          [] k = 7 -> IF /\ pos = 1
                         /\ Len(s) >= 1
                         /\ Ch(s, 1) \in Letters
                         /\ FirstNonSpace(s, 2) > Len(s)
                      THEN <<1, Len(s) + 1>>
                      ELSE NoMatch

\* clean_headers_footers: the loop over the patterns, from pattern k on,
\* each step being re.sub(patterns[k], '', s), and the strip of the result.
clean_headers_footers(text) ==
    LET RECURSIVE Remove(_, _, _, _)
        Remove(k, s, lt, pos) ==
            LET Cut(m) ==
                    IF m = NoMatch THEN SubSeq(s, pos, Len(s))
                    ELSE SubSeq(s, pos, m[1] - 1) \o Remove(k, s, lt, m[2])
            IN  Cut(LineHeaderMatch(k, s, lt, pos))
        RECURSIVE Clean(_, _)
        Clean(s, k) == IF k > 7 THEN s ELSE Clean(Remove(k, s, Lower(s), 1), k + 1)
    IN  Strip(Clean(text, 1))

\* re.split(r'(?<=\.)\s*(?=[A-Z][a-z]|\b[A-Z]\b)', text) from position pos
\* on, the next period looked for from position from on: the text is cut
\* after a period, the white space that follows it dropped, where the
\* lookahead holds at the position j that follows.
RECURSIVE LineBlocks(_, _, _)
LineBlocks(text, pos, from) ==
    LET BlockStart(j) ==
            /\ j <= Len(text)
            /\ Ch(text, j) \in UpperSet
            /\ \/ j + 1 > Len(text)
               \/ Ch(text, j + 1) \in LowerSet
               \/ Ch(text, j + 1) \notin WordChars
        Cut(d, j) ==
            IF d = 0 THEN <<SubSeq(text, pos, Len(text))>>
            ELSE IF BlockStart(j)
            THEN <<SubSeq(text, pos, d)>> \o LineBlocks(text, j, j)
            ELSE LineBlocks(text, pos, d + 1)
        AtPeriod(d) == Cut(d, FirstNonSpace(text, d + 1))
    IN  AtPeriod(FindFrom(text, ".", from))

\* re.match(r'^[A-Z][\w\s\(\)\-]+$', line) on a stripped line.
LineIsTerm(line) ==
    /\ Len(line) >= 2
    /\ Ch(line, 1) \in UpperSet
    /\ FirstNotIn(line, WordChars \cup WhiteSpace \cup {"(", ")", "-"}, 2, Len(line)) = 0

\* A variant of LineStep in which a new term keeps the definition lines
\* gathered so far.
LineStepWithoutReset(st, lines) ==
    IF lines = <<>> THEN st
    ELSE IF LineIsTerm(lines[1])
    THEN [term |-> Some(lines[1]), defs |-> st.defs \o Tail(lines), out |-> FlushPending(st)]
    ELSE [st EXCEPT !.defs = st.defs \o lines]

\* One iteration of the loop over the blocks, lines being the stripped,
\* non-empty lines of the block.
LineStep(st, lines) ==
    IF lines = <<>> THEN st
    ELSE IF LineIsTerm(lines[1])
    THEN [term |-> Some(lines[1]), defs |-> Tail(lines), out |-> FlushPending(st)]
    ELSE [st EXCEPT !.defs = st.defs \o lines]

LineExtract(text) ==
    LET RECURSIVE Scan(_, _)
        Scan(st, blocks) ==
            IF blocks = <<>> THEN st
            ELSE Scan(LineStep(st, StrippedNonEmpty(SplitOn(blocks[1], "\n"))),
                      Tail(blocks))
    IN  FlushPending(Scan(SectionStart, LineBlocks(clean_headers_footers(text), 1, 1)))

(***************************************************************************)
(* PDFReader: the base reader, a short capitalized line is a term          *)
(***************************************************************************)

\* The last position of the line of s that holds position a.
LineEnd(s, a) == OrElse(FindFrom(s, "\n", a), Len(s) + 1) - 1

\* The least e in lo..hi at which the lookahead (?=\w+\s+This is) holds,
\* under re.IGNORECASE (lt is the text lower-cased), 0 when there is none.
RECURSIVE PDFFirstBeforeThisIs(_, _, _, _)
PDFFirstBeforeThisIs(s, lt, lo, hi) ==
    LET BeforeThisIs(e) ==
            LET Check(w, t) ==
                    /\ e <= Len(s)
                    /\ w > e
                    /\ t > w
                    /\ t + 6 <= Len(s)
                    /\ SubSeq(lt, t, t + 6) = "this is"
                AtWord(w) == Check(w, RunEnd(s, WhiteSpace, w))
            IN  AtWord(RunEnd(s, WordChars, e))
    IN  IF lo > hi THEN 0
        ELSE IF lo = hi THEN (IF BeforeThisIs(lo) THEN lo ELSE 0)
        ELSE OrElse(PDFFirstBeforeThisIs(s, lt, lo, (lo + hi) \div 2),
                    PDFFirstBeforeThisIs(s, lt, (lo + hi) \div 2 + 1, hi))

\* re.sub(r'Plain English Campaign The A to Z of financial terms.*?
\* (?=\w+\s+This is)', '', s, flags=re.IGNORECASE) from position pos on,
\* the header looked for from position from on: the header goes, up to the
\* word before the first "This is" on its line.
RECURSIVE PDFRemoveHeaders(_, _, _, _)
PDFRemoveHeaders(s, lt, pos, from) ==
    LET Cut(i, e) ==
            IF e = 0 THEN PDFRemoveHeaders(s, lt, pos, i + 1)
            ELSE SubSeq(s, pos, i - 1) \o PDFRemoveHeaders(s, lt, e, e)
        Past(i, a) == Cut(i, PDFFirstBeforeThisIs(s, lt, a, LineEnd(s, a)))
        At(i) == IF i = 0 THEN SubSeq(s, pos, Len(s))
                 ELSE Past(i, i + Len("plain english campaign the a to z of financial terms"))
    IN  At(FindFrom(lt, "plain english campaign the a to z of financial terms", from))

\* re.sub(r'\s*\d+\s*$', '', s, flags=re.MULTILINE) from position pos on: a
\* run of digits that white space joins to the end of a line goes, with the
\* white space before it; the match stops at the last line end the white
\* space after the digits reaches.
RECURSIVE PDFRemovePageNumbers(_, _)
PDFRemovePageNumbers(s, pos) ==
    LET Cut(d, m, stop) ==
            IF stop = 0 THEN SubSeq(s, pos, m - 1) \o PDFRemovePageNumbers(s, m)
            ELSE SubSeq(s, pos, SpaceStart(s, pos, d) - 1)
                 \o PDFRemovePageNumbers(s, stop)
        Stop(m, t) == IF t > Len(s) THEN Len(s) + 1 ELSE LastIn(s, {"\n"}, m, t - 1)
        Digits(d, m) == Cut(d, m, Stop(m, RunEnd(s, WhiteSpace, m)))
        At(d) == IF d = 0 THEN SubSeq(s, pos, Len(s))
                 ELSE Digits(d, RunEnd(s, DigitSet, d))
    IN  At(FirstIn(s, DigitSet, pos, Len(s)))

\* re.match(r'^[A-Z][A-Za-z\s\-&()]+$', line) and len(line.split()) <= 4
PDFIsTerm(line) ==
    /\ Len(line) >= 2
    /\ Ch(line, 1) \in UpperSet
    /\ FirstNotIn(line, Letters \cup WhiteSpace \cup {"-", "&", "(", ")"}, 2, Len(line)) = 0
    /\ Len(SplitWords(line)) <= 4

PDFFlush(st) ==
    IF Truthy(st.term) /\ st.defs # <<>>
    THEN Append(st.out, Pair(st.term[1], Strip(Join(st.defs, " "))))
    ELSE st.out

\* One iteration of the loop over the lines, line being the stripped line.
PDFStep(st, line) ==
    IF line = "" THEN st
    ELSE IF PDFIsTerm(line)
    THEN [term |-> Some(line), defs |-> <<>>, out |-> PDFFlush(st)]
    ELSE IF Truthy(st.term) /\ StartsWith(line, "This")
    THEN [st EXCEPT !.defs = <<line>>]
    ELSE IF Truthy(st.term) /\ st.defs # <<>>
    THEN [st EXCEPT !.defs = Append(st.defs, line)]
    ELSE st

\* re.sub(r'Plain English Campaign.*?(?=\w)', '', s, flags=re.IGNORECASE)
\* from position pos on, the name looked for from position from on: the
\* name goes, up to the next word character on its line.
RECURSIVE PDFRemoveCampaign(_, _, _, _)
PDFRemoveCampaign(s, lt, pos, from) ==
    LET Cut(i, w) ==
            IF w = 0 THEN PDFRemoveCampaign(s, lt, pos, i + 1)
            ELSE SubSeq(s, pos, i - 1) \o PDFRemoveCampaign(s, lt, w, w)
        Past(i, a) == Cut(i, FirstIn(s, WordChars, a, LineEnd(s, a)))
        At(i) == IF i = 0 THEN SubSeq(s, pos, Len(s))
                 ELSE Past(i, i + Len("plain english campaign"))
    IN  At(FindFrom(lt, "plain english campaign", from))

\* The clean-up of a definition.
PDFCleanDefinition(definition) ==
    CollapseSpaces(PDFRemoveCampaign(definition, Lower(definition), 1, 1))

\* "if term and definition"
PDFKeep(p) == p.term # "" /\ PDFCleanDefinition(p.definition) # ""

\* extract_terms_and_definitions: the clean-up of the text, the loop over
\* its lines, the flush of the last pending pair and the clean-up loop.
PDFExtract(text) ==
    LET RECURSIVE Scan(_, _)
        Scan(st, lines) ==
            IF lines = <<>> THEN st ELSE Scan(PDFStep(st, Strip(lines[1])), Tail(lines))
        CleanAll(kept) ==
            [i \in 1..Len(kept) |->
                Pair(Strip(kept[i].term), Strip(PDFCleanDefinition(kept[i].definition)))]
    IN  IF text = "" THEN <<>>
        ELSE CleanAll(SelectSeq(
                 PDFFlush(Scan(SectionStart,
                     SplitOn(PDFRemovePageNumbers(
                                 PDFRemoveHeaders(text, Lower(text), 1, 1), 1), "\n"))),
                 PDFKeep))
(***************************************************************************)
(* De-duplication and the writers                                          *)
(***************************************************************************)

\* HyphenPDFReader.save_text_content: "if term not in seen", the term as
\* it is spelled.
HyphenUniqueTerms(all) ==
    LET RECURSIVE Loop(_, _, _)
        Loop(rest, seen, unique) ==
            IF rest = <<>> THEN unique
            ELSE IF rest[1].term \notin seen
            THEN Loop(Tail(rest), seen \cup {rest[1].term}, Append(unique, rest[1]))
            ELSE Loop(Tail(rest), seen, unique)
    IN  Loop(all, {}, <<>>)

\* A variant of UniqueTerms that compares the terms as they are spelled.
UniqueTermsAsSpelled(all) == HyphenUniqueTerms(all)

\* "Remove duplicates while preserving order": a pair is kept when the
\* lower-cased term is not in seen, and the lower-cased term is then added
\* (the same loop in SectionPDFReader.save_text_content,
\* ColumnGlossaryReader.process_pdf, ThomasWillingGlossaryReader
\* .save_text_content and WAGovGlossaryReader.process_pdf).
UniqueTerms(all) ==
    LET RECURSIVE Loop(_, _, _)
        Loop(rest, seen, unique) ==
            IF rest = <<>> THEN unique
            ELSE IF Lower(rest[1].term) \notin seen
            THEN Loop(Tail(rest), seen \cup {Lower(rest[1].term)}, Append(unique, rest[1]))
            ELSE Loop(Tail(rest), seen, unique)
    IN  Loop(all, {}, <<>>)

\* f.write(f"{term}: {definition}\n\n") for every pair.
RECURSIVE WriteColonFormat(_)
WriteColonFormat(ps) ==
    IF ps = <<>> THEN ""
    ELSE ps[1].term \o ": " \o ps[1].definition \o "\n\n" \o WriteColonFormat(Tail(ps))

WarningLine == "Warning: No terms and definitions were extracted from the PDF.\n"

\* The writer of PDFReader and HyphenPDFReader: the warning line when there
\* is no pair.
WriteOrWarn(ps) == IF ps = <<>> THEN WarningLine ELSE WriteColonFormat(ps)

\* f.write(f"Term: {term}\nDefinition: {definition}\n\n") for every pair.
RECURSIVE WriteTermDefinitionFormat(_)
WriteTermDefinitionFormat(ps) ==
    IF ps = <<>> THEN ""
    ELSE "Term: " \o ps[1].term \o "\nDefinition: " \o ps[1].definition \o "\n\n"
         \o WriteTermDefinitionFormat(Tail(ps))

(***************************************************************************)
(* WAGovGlossaryReader.process_pdf: cleaning, merging, colon splitting     *)
(***************************************************************************)

\* clean_text:
\*   re.sub(r'Office of Financial Management\s+June 2018', '', text), from
\*   position pos on, the footer looked for from position from on;
\*   re.sub(r'^GLOSSARY OF TERMS\s+', '', text), only at the start of the
\*   text, and only with white space after the title;
\*   text.strip().
clean_text(text) ==
    LET RECURSIVE RemoveFooters(_, _)
        RemoveFooters(pos, from) ==
            LET Cut(i, a, j) ==
                    IF /\ j > a
                       /\ j + Len("June 2018") - 1 <= Len(text)
                       /\ SubSeq(text, j, j + Len("June 2018") - 1) = "June 2018"
                    THEN SubSeq(text, pos, i - 1)
                         \o RemoveFooters(j + Len("June 2018"), j + Len("June 2018"))
                    ELSE RemoveFooters(pos, i + 1)
                Past(i, a) == Cut(i, a, FirstNonSpace(text, a))
                At(i) == IF i = 0 THEN SubSeq(text, pos, Len(text))
                         ELSE Past(i, i + Len("Office of Financial Management"))
            IN  At(FindFrom(text, "Office of Financial Management", from))
        RemoveTitle(s) ==
            LET Skip(j) ==
                    IF StartsWith(s, "GLOSSARY OF TERMS") /\ j > Len("GLOSSARY OF TERMS") + 1
                    THEN SubSeq(s, j, Len(s))
                    ELSE s
            IN  Skip(FirstNonSpace(s, Len("GLOSSARY OF TERMS") + 1))
    IN  Strip(RemoveTitle(RemoveFooters(1, 1)))

\* should_merge_with_previous: "true", "false", or the exception the call
\* ends with: term.lower().split()[0] of a term that is all white space.
should_merge_with_previous(term) ==
    LET Test(words) ==
            IF words = <<>> THEN "IndexError"
            ELSE IF \/ words[1] \in
                        { "a", "an", "the", "you", "it", "they", "this", "that",
                          "these", "those", "usually", "in", "therefore", "when",
                          "can", "since", "also", "if", "however", "because",
                          "while", "although", "unless", "moreover", "furthermore" }
                    \/ Ch(term, 1) \in LowerSet
            THEN "true"
            ELSE "false"
    IN  IF term = "" THEN "false" ELSE Test(SplitWords(Lower(term)))

\* process_definition_colons: the loop over the sentences; the pairs
\* returned and the exception the call ends with ("" when it returns).
process_definition_colons(text) ==
    LET RECURSIVE ColonPairs(_, _)
        ColonPairs(sentences, additional_pairs) ==
            LET Decide(parts, merge) ==
                    IF merge = "IndexError" THEN [exc |-> merge, out |-> <<>>]
                    ELSE IF merge = "false"
                    THEN ColonPairs(Tail(sentences),
                                    Append(additional_pairs,
                                           Pair(Strip(parts[1]), Strip(parts[2]))))
                    ELSE ColonPairs(Tail(sentences), additional_pairs)
                Split(parts) == Decide(parts, should_merge_with_previous(parts[1]))
            IN  IF sentences = <<>> THEN [exc |-> "", out |-> additional_pairs]
                ELSE IF ~Contains(sentences[1], ": ")
                THEN ColonPairs(Tail(sentences), additional_pairs)
                ELSE Split(SplitFirst(sentences[1], ": "))
    IN  ColonPairs(SplitOn(text, ". "), <<>>)

\* "Process pairs and merge where needed": the while loop of process_pdf;
\* a merge is processed_pairs[-1] = (prev_term, f"{prev_def} {definition}").
RECURSIVE WAMergeLoop(_, _)
WAMergeLoop(all, processed_pairs) ==
    LET MergeIntoLast(definition) ==
            [processed_pairs EXCEPT
                ![Len(processed_pairs)] = Pair(@.term, @.definition \o " " \o definition)]
        Colons(additional) ==
            IF additional.exc # "" THEN [exc |-> additional.exc, out |-> <<>>]
            ELSE IF additional.out # <<>>
            THEN WAMergeLoop(Tail(all), processed_pairs \o additional.out)
            ELSE WAMergeLoop(Tail(all), Append(processed_pairs, all[1]))
        Decide(merge) ==
            IF merge = "IndexError" THEN [exc |-> merge, out |-> <<>>]
            ELSE IF merge = "true"
            THEN WAMergeLoop(Tail(all), MergeIntoLast(all[1].definition))
            ELSE Colons(process_definition_colons(all[1].definition))
    IN  IF all = <<>> THEN [exc |-> "", out |-> processed_pairs]
        ELSE Decide(IF processed_pairs = <<>> THEN "false"
                    ELSE should_merge_with_previous(all[1].term))

(***************************************************************************)
(* ThomasWillingGlossaryReader.clean_intro_text                            *)
(***************************************************************************)

IntroTitle == "Glossary of Important Business, Economic, and Financial History Terms"

\* clean_intro_text: re.sub of the DOTALL pattern title.*?end from position
\* pos on (the text from the title to the first end after it goes), then
\* strip.
clean_intro_text(text) ==
    LET RECURSIVE RemoveIntro(_)
        RemoveIntro(pos) ==
            LET Cut(i, j) ==
                    IF j = 0 THEN SubSeq(text, pos, Len(text))
                    ELSE SubSeq(text, pos, i - 1)
                         \o RemoveIntro(j + Len("sharing of creative work."))
                At(i) == IF i = 0 THEN SubSeq(text, pos, Len(text))
                         ELSE Cut(i, FindFrom(text, "sharing of creative work.",
                                              i + Len(IntroTitle)))
            IN  At(FindFrom(text, IntroTitle, pos))
    IN  Strip(RemoveIntro(1))

(***************************************************************************)
(* FinanceTrainingDataCreator.load_glossary_terms: the downstream loader   *)
(***************************************************************************)

\* '=' * 80
SeparatorLine ==
    LET RECURSIVE Repeat(_, _)
        Repeat(s, n) == IF n = 0 THEN "" ELSE s \o Repeat(s, n - 1)
    IN  Repeat("=", 80)

\* load_glossary_terms on the content of the file: the sections between
\* separator lines, the records
\* [p.strip() for p in section.split('\n\n') if p.strip()] of each, and
\* the body of the loop over the records.
load_glossary_terms(content) ==
    LET LoadRecord(pair) ==
            LET Valid(term, definition) ==
                    IF term # "" /\ definition # "" /\ Len(term) > 1 /\ Len(definition) > 5
                    THEN <<Pair(term, definition)>>
                    ELSE <<>>
                Split(parts) == Valid(Strip(parts[1]), Strip(parts[2]))
            IN  IF Contains(pair, ":") THEN Split(SplitFirst(pair, ":")) ELSE <<>>
        RECURSIVE LoadRecords(_)
        LoadRecords(records) ==
            IF records = <<>> THEN <<>>
            ELSE LoadRecord(records[1]) \o LoadRecords(Tail(records))
        RECURSIVE LoadSections(_)
        LoadSections(sections) ==
            IF sections = <<>> THEN <<>>
            ELSE LoadRecords(StrippedNonEmpty(SplitOn(sections[1], "\n\n")))
                 \o LoadSections(Tail(sections))
    IN  LoadSections(SplitOn(content, SeparatorLine))

(***************************************************************************)
(* Documents                                                               *)
(***************************************************************************)

\* The item that separates two pages of a document.
PageBreak == "\f"

\* The lines documents are built from.
Pool ==
    { "",
      "B",
      "A: short",
      "ROI: Return on investment.",
      "roi: ratio of net income.",
      "A big dog.",
      "Bond",
      "This is a debt security.",
      "Fund - money set aside." }

\* Two records with a blank line between them.
TwoRecords ==
    << "Amortization: The process of spreading out a loan into a series of fixed payments over time.",
       "",
       "Yield Curve: A graphical representation of interest rates on bonds of different maturities." >>

\* A term line and a line without a colon below it.
BondLines ==
    << "Bond: A debt security.",
       "This instrument pays periodic interest." >>

\* A first content page that opens with the introduction of the Thomas
\* Willing glossary.
IntroLines ==
    << IntroTitle,
       "License: for the sharing of creative work.",
       "Bond: A debt security." >>

\* Whole documents (one page each) taken as they are.
Scenarios == {TwoRecords, BondLines, IntroLines}

\* The longest document built line by line.
MaxItems == 3

\* page.extract_text() of every page the reader visits, in page order: the
\* pages are the runs of lines between page breaks, the text of a page its
\* lines, one below the other.
AllPageTexts(items) ==
    LET RECURSIVE SplitPages(_, _)
        SplitPages(rest, page) ==
            IF rest = <<>> THEN <<Join(page, "\n")>>
            ELSE IF rest[1] = PageBreak
                 THEN <<Join(page, "\n")>> \o SplitPages(Tail(rest), <<>>)
                 ELSE SplitPages(Tail(rest), Append(page, rest[1]))
    IN  SplitPages(items, <<>>)

\* The pages without text left out ("if text:").
PageTexts(items) == SelectSeq(AllPageTexts(items), HasText)

(***************************************************************************)
(* The readers' processing                                                 *)
(***************************************************************************)

\* What a run leaves behind: the exception the segmenter ended with, the
\* pairs it returned, the list handed to the de-duplication, the final pair
\* list, the exception the run ended with, and the output file.
Outcome(segExc_, segOut_, raw_, pairs_, raised_, fileExists_, outfile_) ==
    [segExc |-> segExc_, segOut |-> segOut_, raw |-> raw_, pairs |-> pairs_,
     raised |-> raised_, fileExists |-> fileExists_, outfile |-> outfile_]

\* raise ValueError("No text content extracted from PDF")
NoTextContent == Outcome("", <<>>, <<>>, <<>>, "ValueError", FALSE, "")

\* The pairs of unique_terms written in the colon format, each followed by
\* a blank line; no pair, an empty file.
SaveUnique(all, processed, unique_terms) ==
    Outcome("", all, processed, unique_terms, "", TRUE, WriteColonFormat(unique_terms))

\* SectionPDFReader.save_text_content: the segmenter on every page, the
\* results concatenated, duplicates removed, the file written.
SectionSaveTextContent(raw_text) ==
    LET RECURSIVE Pages(_)
        Pages(texts) ==
            IF texts = <<>> THEN <<>>
            ELSE SectionExtract(texts[1]) \o Pages(Tail(texts))
        Save(all) == SaveUnique(all, all, UniqueTerms(all))
    IN  Save(Pages(raw_text))

\* SectionPDFReader.process_pdf: no page text raises ValueError; otherwise
\* save_text_content segments every page again, removes duplicates and
\* writes the file.
SectionProcessPdf(items) ==
    LET Texts(raw_text) ==
            IF raw_text = <<>> THEN NoTextContent
            ELSE SectionSaveTextContent(raw_text)
    IN  Texts(PageTexts(items))

ThomasSaveTextContent(all) == SaveUnique(all, all, UniqueTerms(all))

\* ThomasWillingGlossaryReader.process_pdf; items are the pages after the
\* first page of the PDF, which the reader always skips. In the loop over
\* the pages that have text, the page numbered 1 is cleaned of the
\* introduction.
ThomasProcessPdf(items) ==
    LET RECURSIVE Pages(_, _)
        Pages(texts, page_num) ==
            IF page_num > Len(texts) THEN <<>>
            ELSE (IF texts[page_num] = "" THEN <<>>
                  ELSE ThomasExtract(IF page_num = 1 THEN clean_intro_text(texts[page_num])
                                     ELSE texts[page_num]))
                 \o Pages(texts, page_num + 1)
    IN  IF PageTexts(items) = <<>> THEN NoTextContent
        ELSE ThomasSaveTextContent(Pages(AllPageTexts(items), 1))

\* The page texts HyphenPDFReader.process_pdf works on: those of
\* extract_with_pdfplumber, and those of PyPDF2 when pdfplumber gave none
\* ("raw_text = plumber_text if plumber_text else pypdf2_text"). The text
\* of a page is all in its left half: full_text is
\* left_text.strip() + "\n\n" + right_text.strip(), kept
\* "if full_text.strip()".
HyphenRawText(items) ==
    LET FullText(text) == Strip(text) \o "\n\n" \o Strip("")
        HasFullText(text) == Strip(FullText(text)) # ""
        FullTexts(kept) == [i \in 1..Len(kept) |-> FullText(kept[i])]
        Choose(plumber_text, pypdf2_text) ==
            IF plumber_text # <<>> THEN plumber_text ELSE pypdf2_text
    IN  Choose(FullTexts(SelectSeq(AllPageTexts(items), HasFullText)), PageTexts(items))

\* HyphenPDFReader.save_text_content: duplicates removed, the file written.
HyphenSaveTextContent(terms_and_defs) ==
    LET Write(unique_terms) ==
            Outcome("", terms_and_defs, terms_and_defs, unique_terms, "", TRUE,
                    WriteOrWarn(unique_terms))
    IN  Write(HyphenUniqueTerms(terms_and_defs))

\* HyphenPDFReader.process_pdf.
HyphenProcessPdf(items) ==
    LET Texts(raw_text) ==
            IF raw_text = <<>> THEN NoTextContent
            ELSE HyphenSaveTextContent(HyphenExtract(Join(raw_text, "\n\n")))
    IN  Texts(HyphenRawText(items))

\* ColumnGlossaryReader.process_pdf: the first exception ends the loop over
\* the pages; otherwise duplicates are removed and the list is returned,
\* no file is written.
ColumnProcessPdf(items) ==
    LET RECURSIVE Pages(_, _)
        Pages(texts, all) ==
            LET Got(r) ==
                    IF r.exc # "" THEN [exc |-> r.exc, out |-> all]
                    ELSE Pages(Tail(texts), all \o r.out)
            IN  IF texts = <<>> THEN [exc |-> "", out |-> all]
                ELSE Got(ColumnExtract(texts[1]))
        Return(r) ==
            IF r.exc # "" THEN Outcome(r.exc, r.out, <<>>, <<>>, r.exc, FALSE, "")
            ELSE Outcome("", r.out, r.out, UniqueTerms(r.out), "", FALSE, "")
    IN  Return(Pages(PageTexts(items), <<>>))

\* WAGovGlossaryReader.process_pdf: the segmenter on every cleaned page,
\* the merge loop, the removal of duplicates and the writing of the file.
WAGovProcessPdf(items) ==
    LET RECURSIVE Pages(_)
        Pages(texts) ==
            IF texts = <<>> THEN <<>>
            ELSE WAGovExtract(clean_text(texts[1])) \o Pages(Tail(texts))
        Save(all, merged) ==
            IF merged.exc # "" THEN Outcome("", all, <<>>, <<>>, merged.exc, FALSE, "")
            ELSE SaveUnique(all, merged.out, UniqueTerms(merged.out))
        Merge(all) == Save(all, WAMergeLoop(all, <<>>))
    IN  Merge(Pages(PageTexts(items)))

\* LinePDFReader.process_file: the reader works on a text file and rewrites
\* it in place; a page break is a form feed on a line of its own. Without
\* pairs the file stays as it was.
LineProcessFile(items) ==
    LET Write(content, terms_and_defs) ==
            Outcome("", terms_and_defs, terms_and_defs, terms_and_defs, "", TRUE,
                    IF terms_and_defs = <<>> THEN content
                    ELSE WriteTermDefinitionFormat(terms_and_defs))
        Rewrite(content) == Write(content, LineExtract(content))
    IN  Rewrite(Join(items, "\n"))

\* PDFReader.save_text_content on the pages extract_with_pdfplumber kept.
PDFSaveTextContent(items) ==
    LET Write(terms_and_defs) ==
            Outcome("", terms_and_defs, terms_and_defs, terms_and_defs, "", TRUE,
                    WriteOrWarn(terms_and_defs))
    IN  Write(PDFExtract(Join(PageTexts(items), "\n\n")))

(***************************************************************************)
(* The classification of the lines by the loops of the segmenters          *)
(***************************************************************************)

\* What the loop of SectionPDFReader.extract_terms_and_definitions does
\* with the stripped line: it opens a new pair ("term"), appends the line
\* to the pending definition ("continuation"), or leaves it out
\* ("dropped").
SectionLabel(st, line) ==
    IF line = "" THEN "dropped"
    ELSE IF IsSectionMarker(line) THEN "dropped"
    ELSE IF Contains(line, ":") THEN "term"
    ELSE IF Truthy(st.term) THEN "continuation"
    ELSE "dropped"

\* The same for the loop of HyphenPDFReader.extract_terms_and_definitions.
HyphenLabel(st, line) ==
    IF Contains(line, "Penn State") \/ Contains(line, "Financial and Life Skills Center")
    THEN "dropped"
    ELSE IF HyphenTermMatch(line) # <<>> THEN "term"
    ELSE IF Truthy(st.term) /\ line # "" /\ ~HyphenLooksLikeTerm(line) THEN "continuation"
    ELSE "dropped"

\* The same for the loop of PDFReader.extract_terms_and_definitions: the
\* line that starts with "This" begins the pending definition anew, a
\* later line is appended only to a definition that has begun.
PDFLabel(st, line) ==
    IF line = "" THEN "dropped"
    ELSE IF PDFIsTerm(line) THEN "term"
    ELSE IF Truthy(st.term) /\ StartsWith(line, "This") THEN "continuation"
    ELSE IF Truthy(st.term) /\ st.defs # <<>> THEN "continuation"
    ELSE "dropped"

\* The loop over lines with the step Step: for every line, whether a term
\* was pending when the loop came to it, and what the loop did with it.
Classification(Step(_, _), Label(_, _), lines) ==
    LET RECURSIVE Scan(_, _)
        Scan(st, i) ==
            IF i > Len(lines) THEN <<>>
            ELSE <<[pending |-> Truthy(st.term), label |-> Label(st, Strip(lines[i]))]>>
                 \o Scan(Step(st, Strip(lines[i])), i + 1)
    IN  Scan(SectionStart, 1)

\* The lines the loop of PDFReader.extract_terms_and_definitions runs
\* over.
PDFLoopLines(text) ==
    SplitOn(PDFRemovePageNumbers(PDFRemoveHeaders(text, Lower(text), 1, 1), 1), "\n")

(***************************************************************************)
(* Reader construction, the PDF cache directory and the batch loops        *)
(***************************************************************************)

\* The file system is a function from the paths of the files that exist to
\* their content. A PDF that opens is the text of its pages after a cover
\* page without text, behind the marker "%PDF"; any other content is not a
\* PDF, and Garbage is content that neither opens as a PDF nor decodes as
\* UTF-8.
Garbage == "<garbage>"

\* Path(__file__).parent.parent / 'financial_pdfs'
PdfDir == "financial_pdfs/"

\* open(path, 'w') ... f.write(content)
WriteFile(files, path, content) ==
    [p \in DOMAIN files \cup {path} |-> IF p = path THEN content ELSE files[p]]

\* bool(urlparse(source).scheme): the text before the first colon is a
\* scheme when it starts with a letter and holds letters, digits, "+", "-"
\* and "." only.
is_url(source) ==
    LET Scheme(p) ==
            /\ p >= 2
            /\ Ch(source, 1) \in Letters
            /\ FirstNotIn(source, Letters \cup DigitSet \cup {"+", "-", "."}, 1, p - 1) = 0
    IN  Scheme(FindFrom(source, ":", 1))

\* url.split('/')[-1]
LastSegment(url) == SubSeq(url, LastIn(url, {"/"}, 1, Len(url)) + 1, Len(url))

\* Path.with_suffix('.txt') of a path whose name is not empty: the text
\* from the last dot of the name on is replaced, unless that dot opens or
\* closes the name.
WithTxtSuffix(path) ==
    LET Stem(b, d) ==
            IF d > b /\ d < Len(path) THEN SubSeq(path, 1, d - 1) ELSE path
    IN  Stem(LastIn(path, {"/"}, 1, Len(path)) + 1,
             LastIn(path, {"."}, LastIn(path, {"/"}, 1, Len(path)) + 1, Len(path)))
        \o ".txt"

\* What a call leaves behind: the files, the reader object (None when the
\* constructor raised), the number of HTTP requests the call issued, the
\* input error it met ("" when none), the exception it ended with ("" when
\* it returned) and the value it returned.
Done(files_, rdr_, requests_, error_, raised_, value_) ==
    [files |-> files_, rdr |-> rdr_, requests |-> requests_,
     error |-> error_, raised |-> raised_, value |-> value_]

\* PDFReader.__init__ with _download_pdf: every URL is requested, whether
\* or not the file is there; http is the response, [error, body].
PDFReaderInit(files, source, http) ==
    LET Download(path) ==
            IF http.error # ""
            THEN Done(files, None, 1, "http", http.error, <<>>)
            ELSE Done(WriteFile(files, path, http.body),
                      Some([cls |-> "PDFReader", pdf_path |-> path]), 1, "", "", <<>>)
        Named(filename) ==
            Download(PdfDir \o (IF EndsWith(Lower(filename), ".pdf") THEN filename
                                ELSE "financial_guide"))
    IN  IF is_url(source) THEN Named(LastSegment(source))
        ELSE IF source \notin DOMAIN files
        THEN Done(files, None, 0, "missing", "FileNotFoundError", <<>>)
        ELSE Done(files, Some([cls |-> "PDFReader", pdf_path |-> source]), 0, "", "", <<>>)

\* ColumnGlossaryReader.__init__ with _download_pdf: a URL is requested
\* only when no file of its name is in the directory.
ColumnReaderInit(files, source, http) ==
    LET Cached(path) ==
            IF path \in DOMAIN files
            THEN Done(files, Some([cls |-> "ColumnGlossaryReader", pdf_path |-> path]),
                      0, "", "", <<>>)
            ELSE IF http.error # ""
            THEN Done(files, None, 1, "http", http.error, <<>>)
            ELSE Done(WriteFile(files, path, http.body),
                      Some([cls |-> "ColumnGlossaryReader", pdf_path |-> path]),
                      1, "", "", <<>>)
    IN  IF is_url(source) THEN Cached(PdfDir \o LastSegment(source))
        ELSE IF source \notin DOMAIN files
        THEN Done(files, None, 0, "missing", "FileNotFoundError", <<>>)
        ELSE Done(files, Some([cls |-> "ColumnGlossaryReader", pdf_path |-> source]),
                  0, "", "", <<>>)

\* pdfplumber.open(path) / PyPDF2.PdfReader(file): "" when the file opens as
\* a PDF, else the input error.
OpenError(files, path) ==
    IF path \notin DOMAIN files THEN "missing"
    ELSE IF ~StartsWith(files[path], "%PDF") THEN "corrupt"
    ELSE ""

\* The lines and page breaks of the pages of a PDF that opens.
PdfDocument(content) ==
    IF Len(content) = 4 THEN <<>> ELSE SplitOn(SubSeq(content, 5, Len(content)), "|")

\* PDFReader.extract_with_pdfplumber and extract_with_pypdf2: the texts of
\* the pages after the first that have text; every exception is logged and
\* an empty dict returned.
ExtractText(files, rdr_) ==
    LET Opened(error) ==
            IF error # "" THEN Done(files, rdr_, 0, error, "", <<>>)
            ELSE Done(files, rdr_, 0, "", "",
                      PageTexts(PdfDocument(files[rdr_[1].pdf_path])))
    IN  Opened(OpenError(files, rdr_[1].pdf_path))

\* ColumnGlossaryReader.process_pdf of a reader object: an exception of the
\* open or of the segmenter is logged and raised again.
ColumnProcessReader(files, rdr_) ==
    LET Processed(r) ==
            Done(files, rdr_, 0, "", r.raised, r.pairs)
        Opened(error) ==
            IF error # "" THEN Done(files, rdr_, 0, error, "PDFSyntaxError", <<>>)
            ELSE Processed(ColumnProcessPdf(PdfDocument(files[rdr_[1].pdf_path])))
    IN  Opened(OpenError(files, rdr_[1].pdf_path))

\* test_paths of pdf_reader.main
test_paths ==
    << "https://www.plainenglish.co.uk/files/financialguide.pdf",
       "https://financialliteracy.psu.edu/sites/default/files/FinLit-Glossary-of-Terms.pdf" >>

\* The body of the loop of pdf_reader.main for pdf_path: the reader is
\* constructed, both extractions run and, when pdfplumber gave text, the
\* text file is written; [files, requests, raised].
MainBody(files, pdf_path, http) ==
    LET Saved(r, plumber_text) ==
            IF plumber_text = <<>> THEN r
            ELSE [r EXCEPT !.files =
                     WriteFile(r.files, WithTxtSuffix(r.rdr[1].pdf_path),
                               WriteOrWarn(PDFExtract(Join(plumber_text, "\n\n"))))]
        Constructed(r) ==
            IF r.raised # "" THEN r ELSE Saved(r, ExtractText(r.files, r.rdr).value)
    IN  Constructed(PDFReaderInit(files, pdf_path, http))

\* The log lines of one iteration of the loop of pdf_reader.main: the
\* except clause logs the failure and the loop goes on.
MainLog(pdf_path, r) ==
    <<"Processing PDF from: " \o pdf_path>>
    \o (IF r.raised # "" THEN <<"Failed to process PDF " \o pdf_path>> ELSE <<>>)

\* GlossaryCombiner.exclude_files
exclude_files == {"cfpb_building_block_activities_glossary.txt"}

\* The file combine_files writes.
output_path == PdfDir \o "combined_glossary.txt"

\* A variant of get_text_files that leaves no file out.
GetTextFilesWithoutExclusion(files) ==
    { p \in DOMAIN files :
        /\ StartsWith(p, PdfDir)
        /\ ~Contains(SubSeq(p, Len(PdfDir) + 1, Len(p)), "/")
        /\ EndsWith(p, ".txt")
        /\ Len(p) > Len(PdfDir) + 4 }

\* GlossaryCombiner.get_text_files as a set: the files of the directory
\* whose name ends with ".txt" and is not excluded (glob gives them in an
\* order of its own).
get_text_files(files) ==
    { p \in DOMAIN files :
        /\ StartsWith(p, PdfDir)
        /\ ~Contains(SubSeq(p, Len(PdfDir) + 1, Len(p)), "/")
        /\ EndsWith(p, ".txt")
        /\ Len(p) > Len(PdfDir) + 4
        /\ SubSeq(p, Len(PdfDir) + 1, Len(p)) \notin exclude_files }

\* A variant of CombineRead in which the first file that cannot be read
\* ends the loop.
RECURSIVE CombineReadStopAtFailure(_, _, _, _)
CombineReadStopAtFailure(files, text_files, combined_content, log) ==
    IF text_files = <<>> THEN [content |-> combined_content, log |-> log]
    ELSE IF files[text_files[1]] = Garbage
    THEN [content |-> combined_content,
          log |-> log \o <<"Processing: " \o text_files[1],
                           "Error reading file " \o text_files[1]>>]
    ELSE CombineReadStopAtFailure(files, Tail(text_files),
             combined_content
             \o (IF Strip(files[text_files[1]]) # ""
                 THEN <<Strip(files[text_files[1]]), "\n" \o SeparatorLine \o "\n">>
                 ELSE <<>>),
             Append(log, "Processing: " \o text_files[1]))

\* The loop of combine_files over text_files: the stripped content of a
\* file that is not empty is collected with a separator after it; a file
\* that cannot be read is logged and the loop goes on.
RECURSIVE CombineRead(_, _, _, _)
CombineRead(files, text_files, combined_content, log) ==
    IF text_files = <<>> THEN [content |-> combined_content, log |-> log]
    ELSE IF files[text_files[1]] = Garbage
    THEN CombineRead(files, Tail(text_files), combined_content,
                     log \o <<"Processing: " \o text_files[1],
                              "Error reading file " \o text_files[1]>>)
    ELSE CombineRead(files, Tail(text_files),
             combined_content
             \o (IF Strip(files[text_files[1]]) # ""
                 THEN <<Strip(files[text_files[1]]), "\n" \o SeparatorLine \o "\n">>
                 ELSE <<>>),
             Append(log, "Processing: " \o text_files[1]))

\* GlossaryCombiner.combine_files, text_files being get_text_files() in
\* the order glob gave: [files, log, written].
combine_files(files, text_files) ==
    LET Written(r) ==
            IF r.content # <<>>
            THEN [files |-> WriteFile(files, output_path, Join(r.content, "\n")),
                  log |-> r.log, written |-> TRUE]
            ELSE [files |-> files, log |-> Append(r.log, "No content found to combine"),
                  written |-> FALSE]
    IN  IF text_files = <<>>
        THEN [files |-> files, log |-> <<"No text files found to combine">>,
              written |-> FALSE]
        ELSE Written(CombineRead(files, text_files, <<>>, <<>>))

(***************************************************************************)
(* prepare_training_data: dynamic responses, conversations, the dataset    *)
(***************************************************************************)

\* What a call gives: the exception it ended with ("" when it returned)
\* and the value it returned.
Returned(value) == [exc |-> "", value |-> value]
Raised(exc) == [exc |-> exc, value |-> <<>>]

\* str.format(**replacements) of a template whose replacement fields are
\* plain names: "{{" and "}}" give one brace, a single "}" and a "{"
\* without "}" are a ValueError, a field that is no key of replacements a
\* KeyError (an IndexError when it is empty or a number).
Format(template, replacements) ==
    LET RECURSIVE Fields(_, _)
        Fields(i, out) ==
            LET Field(o, c) ==
                    IF c = 0 THEN Raised("ValueError")
                    ELSE IF SubSeq(template, o + 1, c - 1) \in DOMAIN replacements
                    THEN Fields(c + 1,
                                out \o SubSeq(template, i, o - 1)
                                    \o replacements[SubSeq(template, o + 1, c - 1)])
                    ELSE IF FirstNotIn(template, DigitSet, o + 1, c - 1) = 0
                    THEN Raised("IndexError")
                    ELSE Raised("KeyError")
                Brace(o) ==
                    IF o = 0 THEN Returned(out \o SubSeq(template, i, Len(template)))
                    ELSE IF o < Len(template) /\ Ch(template, o + 1) = Ch(template, o)
                    THEN Fields(o + 2, out \o SubSeq(template, i, o))
                    ELSE IF Ch(template, o) = "}" THEN Raised("ValueError")
                    ELSE Field(o, FindFrom(template, "}", o + 1))
            IN  Brace(FirstIn(template, {"{", "}"}, i, Len(template)))
    IN  Fields(1, "")

\* The lists random.choice draws from in generate_dynamic_response; two
\* of them hold string literals without a comma between them, which are
\* one element.
RandomChoices ==
    [risk_level : {"conservative", "moderate", "aggressive"},
     allocation : {"60% bonds and 40% stocks", "70% stocks and 30% bonds",
                   "a balanced mix of growth and value stocks"},
     explanation : {"Historical data shows that markets tend to recover over time.",
                    "Diversification can help manage risk while maintaining growth potential.",
                    "A well-balanced portfolio can help weather market volatility."
                    \o "Long-term investments have historically outperformed short-term strategies."
                    \o "Staying invested during market downturns can lead to better returns."},
     analysis : {"Looking at previous market cycles...",
                 "When we examine similar situations in the past...",
                 "Market data indicates that...",
                 "Historical trends suggest that..." \o "Based on prior performance..."},
     alternative : {"defensive sectors", "dividend-paying stocks",
                    "fixed-income securities"}]

\* dict.get(key, "")
Get(context, key) == IF key \in DOMAIN context THEN context[key] ELSE ""

\* generate_dynamic_response, rnd being what the calls of random.choice
\* gave.
generate_dynamic_response(template, context, rnd) ==
    Format(template,
           [k \in {"risk_level", "allocation", "explanation", "analysis",
                   "alternative", "details", "reason"} |->
               IF k = "details" THEN Get(context, "additional_info")
               ELSE IF k = "reason" THEN Get(context, "market_context")
               ELSE rnd[k]])

\* CONVERSATION_FLOWS
CONVERSATION_FLOWS ==
    [risk_assessment |->
        [context |-> "Discussion about investment risk tolerance and portfolio management",
         possible_responses |->
            << "Based on what you've described, your risk tolerance appears to be {risk_level}. This suggests a portfolio with {allocation} might be suitable.",
               "Let's analyze your comfort level with market fluctuations. {explanation}",
               "Understanding your risk tolerance is crucial for building the right portfolio. {details}",
               "Your risk profile indicates a preference for {allocation} investments. Here's why:" >>,
         followup_questions |->
            << "What's your investment timeline?",
               "How would you react to a 20% market drop?",
               "What's your primary investment goal?",
               "Have you considered {alternative} for your portfolio?" >>],
     market_volatility |->
        [context |-> "Addressing concerns about market conditions and volatility",
         possible_responses |->
            << "Market volatility is normal and can actually present opportunities. Here's why: {explanation}",
               "Let's look at historical patterns to put current market conditions in perspective. {analysis}",
               "While volatility can be concerning, maintaining a long-term perspective is key because {reason}",
               "Market corrections can be unsettling, but it's important to remember that {explanation}" >>,
         followup_questions |->
            << "What specific market sectors are you most concerned about?",
               "Have you considered diversifying into {alternative}?",
               "How has your portfolio performed during previous market corrections?",
               "What additional information would help you feel more confident?"
               \o "What's your primary investment goal?" >>]]

\* What generate_dynamic_response(random.choice(possible_responses),
\* context) can give.
DynamicResponses(possible_responses, context) ==
    { generate_dynamic_response(possible_responses[i], context, rnd) :
        i \in 1..Len(possible_responses), rnd \in RandomChoices }

\* A variant of Turn that leaves previous_utterance empty.
TurnWithoutPrevious(previous_utterance, free_message, guided_message) ==
    [personas |-> <<"Financial Expert">>, previous_utterance |-> <<>>,
     free_messages |-> <<free_message>>, guided_messages |-> <<guided_message>>]

\* One turn of a conversation.
Turn(previous_utterance, free_message, guided_message) ==
    [personas |-> <<"Financial Expert">>, previous_utterance |-> previous_utterance,
     free_messages |-> <<free_message>>, guided_messages |-> <<guided_message>>]

\* create_natural_conversation: responses are what the three calls of
\* generate_dynamic_response gave, questions what random.sample(
\* template.followup_questions, 2) gave. An exception of a call ends the
\* function.
create_natural_conversation(flow_type, responses, questions) ==
    LET RECURSIVE Followups(_, _)
        Followups(conversation, k) ==
            IF k > Len(questions) THEN Returned(conversation)
            ELSE IF responses[k + 1].exc # "" THEN Raised(responses[k + 1].exc)
            ELSE Followups(
                     Append(conversation,
                            Turn(<<conversation[Len(conversation)].free_messages[1]>>,
                                 questions[k], responses[k + 1].value)),
                     k + 1)
    IN  IF flow_type \notin DOMAIN CONVERSATION_FLOWS THEN Raised("KeyError")
        ELSE IF responses[1].exc # "" THEN Raised(responses[1].exc)
        ELSE Followups(<<Turn(<<>>, CONVERSATION_FLOWS[flow_type].context,
                              responses[1].value)>>, 1)

\* The keyword parameters of create_enhanced_dataset with their defaults,
\* in src/src/main/prepare_training_data.py and in
\* src/src/prepare_training_data.py; ratios are in tenths.
EnhancedDefaults(version) ==
    IF version = "main"
    THEN [conversation_ratio |-> 6, qa_ratio |-> 4, max_samples |-> 35000,
          max_variations |-> 7, max_followups |-> 3, max_words_per_response |-> 40]
    ELSE [conversation_ratio |-> 3, qa_ratio |-> 7, max_samples |-> 2000]

\* A sample of the dataset; what it says is left out.
Sample ==
    [personas |-> <<"Financial Expert">>, previous_utterance |-> <<>>,
     free_messages |-> <<"q">>, guided_messages |-> <<"a">>]

\* create_enhanced_dataset(output_file, **kwargs): a keyword that is no
\* parameter is a TypeError before the body runs. Of the body, pool keeps
\* the sizes: the conversation categories that are not empty, the QA
\* samples built, and (main version) the samples assembled before the
\* final cut to max_samples.
create_enhanced_dataset(version, kwargs, pool) ==
    LET Samples(n) == Returned([i \in 1..n |-> Sample])
        Body(p) ==
            IF version = "main"
            THEN Samples(IF pool.assembled > p.max_samples THEN p.max_samples
                         ELSE pool.assembled)
            ELSE Samples(pool.categories
                            * (((p.max_samples * p.conversation_ratio) \div 10) \div 4)
                         + Min((p.max_samples * p.qa_ratio) \div 10, pool.qa))
    IN  IF \E k \in DOMAIN kwargs : k \notin DOMAIN EnhancedDefaults(version)
        THEN Raised("TypeError")
        ELSE Body([k \in DOMAIN EnhancedDefaults(version) |->
                      IF k \in DOMAIN kwargs THEN kwargs[k]
                      ELSE EnhancedDefaults(version)[k]])

(***************************************************************************)
(* create_finance_training_data: the comparison loop                       *)
(***************************************************************************)

\* What the comparison loop of create_training_data can give from the
\* list available_terms with comparison_count iterations left: the
\* (term1, term2) of the comparison pairs it appends, for every outcome of
\* its calls of random.choice. Entries are compared by value; a term is
\* related to term1 when a word of the name of term1 is in its name or a
\* word of the definition of term1 in its definition, in lowercase;
\* random.choice of an empty list is an IndexError; list.remove takes the
\* first equal entry out.
RECURSIVE comparison_loop(_, _)
comparison_loop(available_terms, comparison_count) ==
    LET Related(term1, t) ==
            \/ \E k \in 1..Len(SplitWords(Lower(term1.term))) :
                  Contains(Lower(t.term), SplitWords(Lower(term1.term))[k])
            \/ \E k \in 1..Len(SplitWords(Lower(term1.definition))) :
                  Contains(Lower(t.definition), SplitWords(Lower(term1.definition))[k])
        Remove(list, t) ==
            LET At(i) == IF i = 0 THEN list
                         ELSE SubSeq(list, 1, i - 1) \o SubSeq(list, i + 1, Len(list))
            IN  At(IF \E i \in 1..Len(list) : list[i] = t
                   THEN CHOOSE i \in 1..Len(list) :
                            list[i] = t /\ \A j \in 1..(i - 1) : list[j] # t
                   ELSE 0)
        Compared(term1, term2, rest) ==
            IF rest.exc # "" THEN rest
            ELSE Returned(<<[term1 |-> term1, term2 |-> term2]>> \o rest.value)
        Chosen(term1, candidates) ==
            IF candidates = {} THEN {Raised("IndexError")}
            ELSE UNION { { Compared(term1, term2, rest) :
                             rest \in comparison_loop(
                                          Remove(Remove(available_terms, term1), term2),
                                          comparison_count - 1) } :
                         term2 \in candidates }
        Others(term1) ==
            {available_terms[i] : i \in 1..Len(available_terms)} \ {term1}
        Term1(term1, related_terms) ==
            Chosen(term1, IF related_terms # {} THEN related_terms ELSE Others(term1))
    IN  IF comparison_count = 0 \/ Len(available_terms) < 2 THEN {Returned(<<>>)}
        ELSE UNION { Term1(term1, {t \in Others(term1) : Related(term1, t)}) :
                     term1 \in {available_terms[i] : i \in 1..Len(available_terms)} }

(***************************************************************************)
(* State                                                                   *)
(***************************************************************************)
VARIABLES
    doc,        \* the document: lines and page breaks
    pc,         \* "build", "extracted" (pairs returned, nothing written),
                \* "done" (the run of a reader is over), "loaded"
    reader,     \* the reader class that processed doc, "none" before
    segExc,     \* the exception the segmenter ended with, "" when none
    segOut,     \* the pairs the segmenter returned, page after page
    raw,        \* the pair list handed to the de-duplication loop
    pairs,      \* the final pair list, returned or written
    fileExists, \* the output text file exists
    outfile,    \* the content of the output text file
    raised,     \* the exception the run ended with, "" when none
    loaded,     \* what load_glossary_terms parsed from the output file
    fs,         \* the file system: path -> content of the files that exist
    requests,   \* the number of HTTP requests issued so far
    rdr,        \* the reader object constructed last, None before
    last,       \* the last call on a reader class or object
    main_i,     \* the position of pdf_reader.main in test_paths
    mainlog,    \* the log lines of pdf_reader.main
    combined,   \* the last run of combine_files
    call,       \* the last call of a function: its name and arguments
    ret         \* what the call gave: [exc, value]

pipelineVars ==
    <<doc, pc, reader, segExc, segOut, raw, pairs, fileExists, outfile, raised, loaded>>

fileVars == <<fs, requests, rdr, last, main_i, mainlog, combined>>

callVars == <<call, ret>>

vars == <<pipelineVars, fileVars, callVars>>

Init ==
    /\ doc = <<>>
    /\ pc = "build"
    /\ reader = "none"
    /\ segExc = ""
    /\ segOut = <<>>
    /\ raw = <<>>
    /\ pairs = <<>>
    /\ fileExists = FALSE
    /\ outfile = ""
    /\ raised = ""
    /\ loaded = <<>>
    /\ fs = [p \in {} |-> ""]
    /\ requests = 0
    /\ rdr = None
    /\ last = [op |-> "none", cls |-> "", source |-> "", cached |-> FALSE,
               requests |-> 0, error |-> "", raised |-> "", value |-> <<>>]
    /\ main_i = 1
    /\ mainlog = <<>>
    /\ combined = [runs |-> 0, before |-> [p \in {} |-> ""], text_files |-> <<>>,
                   log |-> <<>>, written |-> FALSE]
    /\ call = [fn |-> "none"]
    /\ ret = [exc |-> "", value |-> <<>>]

\* The document grows by one line or one page break.
AddItem ==
    /\ pc = "build"
    /\ Len(doc) < MaxItems
    /\ \A i \in 1..Len(doc) : doc[i] \in Pool \cup {PageBreak}
    /\ \E item \in Pool \cup {PageBreak} : doc' = Append(doc, item)
    /\ UNCHANGED <<pc, reader, segExc, segOut, raw, pairs, fileExists, outfile, raised, loaded>>
    /\ UNCHANGED <<fileVars, callVars>>

\* The document is one of the scenarios.
TakeScenario ==
    /\ pc = "build"
    /\ doc = <<>>
    /\ \E s \in Scenarios : doc' = s
    /\ UNCHANGED <<pc, reader, segExc, segOut, raw, pairs, fileExists, outfile, raised, loaded>>
    /\ UNCHANGED <<fileVars, callVars>>

\* The run of reader name on doc ends with outcome r; a run that returns
\* goes on at after.
Run(name, r, after) ==
    /\ pc = "build"
    /\ pc' = IF r.raised # "" THEN "done" ELSE after
    /\ reader' = name
    /\ segExc' = r.segExc
    /\ segOut' = r.segOut
    /\ raw' = r.raw
    /\ pairs' = r.pairs
    /\ raised' = r.raised
    /\ fileExists' = r.fileExists
    /\ outfile' = r.outfile
    /\ UNCHANGED <<doc, loaded>>
    /\ UNCHANGED <<fileVars, callVars>>

SectionProcess == Run("Section", SectionProcessPdf(doc), "done")

ThomasProcess == Run("Thomas", ThomasProcessPdf(doc), "done")

HyphenProcess == Run("Hyphen", HyphenProcessPdf(doc), "done")

WAGovProcess == Run("WAGov", WAGovProcessPdf(doc), "done")

LineProcess == Run("Line", LineProcessFile(doc), "done")

PDFSave == Run("PDF", PDFSaveTextContent(doc), "done")

\* ColumnGlossaryReader.process_pdf returns the list to its caller, or
\* raises.
ColumnProcess == Run("Column", ColumnProcessPdf(doc), "extracted")

\* ColumnGlossaryReader.save_to_file on the list process_pdf returned.
ColumnSaveToFile ==
    /\ pc = "extracted"
    /\ reader = "Column"
    /\ pc' = "done"
    /\ fileExists' = TRUE
    /\ outfile' = WriteColonFormat(pairs)
    /\ UNCHANGED <<doc, reader, segExc, segOut, raw, pairs, raised, loaded>>
    /\ UNCHANGED <<fileVars, callVars>>

\* The loader reads the output file.
LoadGlossary ==
    /\ pc = "done"
    /\ fileExists
    /\ pc' = "loaded"
    /\ loaded' = load_glossary_terms(outfile)
    /\ UNCHANGED <<doc, reader, segExc, segOut, raw, pairs, fileExists, outfile, raised>>
    /\ UNCHANGED <<fileVars, callVars>>

Next ==
    \/ AddItem
    \/ TakeScenario
    \/ SectionProcess
    \/ ThomasProcess
    \/ HyphenProcess
    \/ ColumnProcess
    \/ ColumnSaveToFile
    \/ WAGovProcess
    \/ LineProcess
    \/ PDFSave
    \/ LoadGlossary

Spec == Init /\ [][Next]_vars


(***************************************************************************)
(* Readers on the file system                                              *)
(***************************************************************************)

\* The most HTTP requests of a behaviour.
MaxRequests == 2

\* The sources a reader is constructed on: a URL that names a PDF, a URL
\* that does not, a local path.
Sources ==
    {"https://h.org/files/guide.pdf", "https://h.org/files/guide", "docs/guide.pdf"}

\* A PDF with a glossary page and a PDF whose pages hold no text.
PdfContents == {"%PDFBond|This is a debt security.", "%PDF"}

\* What a GET gives: a body, a PDF or not, or an exception of requests.get
\* or raise_for_status.
Responses ==
    {[error |-> "", body |-> c] : c \in PdfContents \cup {Garbage}}
    \cup {[error |-> "HTTPError", body |-> ""]}

\* The file the reader class cls keeps for a URL.
CachePath(cls, source) ==
    IF cls = "PDFReader"
    THEN PdfDir \o (IF EndsWith(Lower(LastSegment(source)), ".pdf")
                    THEN LastSegment(source) ELSE "financial_guide")
    ELSE PdfDir \o LastSegment(source)

\* A file appears at the local path.
PlaceFile ==
    /\ "docs/guide.pdf" \notin DOMAIN fs
    /\ \E c \in PdfContents \cup {Garbage} : fs' = WriteFile(fs, "docs/guide.pdf", c)
    /\ UNCHANGED <<requests, rdr, last, main_i, mainlog, combined>>
    /\ UNCHANGED <<pipelineVars, callVars>>

\* The call op of class cls on source ends as r.
Called(op, cls, source, r) ==
    /\ requests + r.requests <= MaxRequests
    /\ fs' = r.files
    /\ requests' = requests + r.requests
    /\ rdr' = r.rdr
    /\ last' = [op |-> op, cls |-> cls, source |-> source,
                cached |-> is_url(source) /\ CachePath(cls, source) \in DOMAIN fs,
                requests |-> r.requests, error |-> r.error, raised |-> r.raised,
                value |-> r.value]
    /\ UNCHANGED <<main_i, mainlog, combined>>
    /\ UNCHANGED <<pipelineVars, callVars>>

\* PDFReader(source)
ConstructPDFReader ==
    \E source \in Sources, http \in Responses :
        Called("__init__", "PDFReader", source, PDFReaderInit(fs, source, http))

\* ColumnGlossaryReader(source)
ConstructColumnReader ==
    \E source \in Sources, http \in Responses :
        Called("__init__", "ColumnGlossaryReader", source,
               ColumnReaderInit(fs, source, http))

\* reader.extract_with_pdfplumber()
ExtractWithPdfplumber ==
    /\ rdr # None
    /\ rdr[1].cls = "PDFReader"
    /\ Called("extract_with_pdfplumber", "PDFReader", rdr[1].pdf_path, ExtractText(fs, rdr))

\* reader.extract_with_pypdf2()
ExtractWithPypdf2 ==
    /\ rdr # None
    /\ rdr[1].cls = "PDFReader"
    /\ Called("extract_with_pypdf2", "PDFReader", rdr[1].pdf_path, ExtractText(fs, rdr))

\* reader.process_pdf() of a ColumnGlossaryReader
ColumnProcessPdfCall ==
    /\ rdr # None
    /\ rdr[1].cls = "ColumnGlossaryReader"
    /\ Called("process_pdf", "ColumnGlossaryReader", rdr[1].pdf_path,
              ColumnProcessReader(fs, rdr))

NextReaders ==
    \/ PlaceFile
    \/ ConstructPDFReader
    \/ ConstructColumnReader
    \/ ExtractWithPdfplumber
    \/ ExtractWithPypdf2
    \/ ColumnProcessPdfCall

SpecReaders == Init /\ [][NextReaders]_vars

(***************************************************************************)
(* The batch loops                                                         *)
(***************************************************************************)

\* The most runs of combine_files in a behaviour.
MaxCombines == 2

\* The text files that appear: one of the directory, white space only, a
\* glossary or bytes that do not decode; the excluded file; one outside the
\* directory.
TextFiles ==
    {[path |-> PdfDir \o "a.txt", content |-> c] :
        c \in {" \n", "Bond: A debt security.\n\n", Garbage}}
    \cup {[path |-> PdfDir \o "cfpb_building_block_activities_glossary.txt",
            content |-> "Bond: A debt security.\n\n"],
           [path |-> "notes.txt", content |-> "Fund: Money set aside.\n\n"]}

\* A text file appears.
PlaceText ==
    \E f \in TextFiles :
        /\ f.path \notin DOMAIN fs
        /\ fs' = WriteFile(fs, f.path, f.content)
        /\ UNCHANGED <<requests, rdr, last, main_i, mainlog, combined>>
        /\ UNCHANGED <<pipelineVars, callVars>>

\* One iteration of the loop of pdf_reader.main.
MainIteration ==
    /\ main_i <= Len(test_paths)
    /\ \E http \in Responses :
         LET Ended(r) ==
                 /\ fs' = r.files
                 /\ requests' = requests + r.requests
                 /\ mainlog' = mainlog \o MainLog(test_paths[main_i], r)
         IN  Ended(MainBody(fs, test_paths[main_i], http))
    /\ main_i' = main_i + 1
    /\ UNCHANGED <<rdr, last, combined>>
    /\ UNCHANGED <<pipelineVars, callVars>>

\* The orders glob can give the files of S in.
Orders(S) ==
    { o \in [1..Cardinality(S) -> S] : \A i, j \in 1..Cardinality(S) : o[i] = o[j] => i = j }

\* GlossaryCombiner().combine_files()
CombineFiles ==
    /\ combined.runs < MaxCombines
    /\ \E text_files \in Orders(get_text_files(fs)) :
         LET Ended(r) ==
                 /\ fs' = r.files
                 /\ combined' = [runs |-> combined.runs + 1, before |-> fs,
                                 text_files |-> text_files, log |-> r.log,
                                 written |-> r.written]
         IN  Ended(combine_files(fs, text_files))
    /\ UNCHANGED <<requests, rdr, last, main_i, mainlog>>
    /\ UNCHANGED <<pipelineVars, callVars>>

NextBatch ==
    \/ PlaceText
    \/ MainIteration
    \/ CombineFiles

SpecBatch == Init /\ [][NextBatch]_vars

(***************************************************************************)
(* Calls of the classifier and of prepare_training_data                    *)
(***************************************************************************)

\* The most QA samples built, and samples assembled, by a run of
\* create_enhanced_dataset.
MaxPool == 3

\* The template and the context of test_dynamic_response_generation.
TestTemplate ==
    "Based on current conditions, {explanation}. Given that {market_context}, {allocation} might be appropriate."

TestContext ==
    [k \in {"market_context", "additional_info"} |->
        IF k = "market_context" THEN "markets are showing increased volatility"
        ELSE "diversification becomes especially important"]

\* The context of test_natural_conversation_flow.
FlowContext ==
    [k \in {"market_context", "additional_info"} |->
        IF k = "market_context" THEN "markets are experiencing high volatility"
        ELSE "focus on risk management is crucial"]

\* The contexts of the calls: those of the tests and the empty dict.
Contexts == {TestContext, FlowContext, [k \in {} |-> ""]}

\* The templates of the calls: that of the test, those of
\* CONVERSATION_FLOWS, and templates with another field of the context,
\* doubled braces, no field.
Templates ==
    {TestTemplate, "{additional_info}: {details}", "{{{risk_level}}} risk", "Stay invested."}
    \cup UNION { {f.possible_responses[i] : i \in 1..Len(f.possible_responses)} :
                 f \in {CONVERSATION_FLOWS[t] : t \in DOMAIN CONVERSATION_FLOWS} }

\* The candidates handed to the classifier.
Candidates ==
    {"", " ", "the rate of return.", "The issuer repays it.", "interest paid yearly.",
     "Bond", " a loan.", "However, fees apply.", "ROI: Return on investment."}

\* The keyword arguments of the calls of create_enhanced_dataset: those of
\* test_dataset_generation (True is 1), max_samples alone, none.
EnhancedCalls ==
    { [k \in {"max_samples", "include_market_context", "max_conversation_turns"} |->
          IF k = "max_samples" THEN 100
          ELSE IF k = "include_market_context" THEN 1 ELSE 2],
      [k \in {"max_samples"} |-> 100],
      [k \in {"max_samples"} |-> 2],
      [k \in {} |-> 0] }

\* The call of fn on args ends as r; a behaviour is one call.
Returns(fn, args, r) ==
    /\ call' = [fn |-> fn, args |-> args]
    /\ ret' = r
    /\ UNCHANGED <<pipelineVars, fileVars>>

\* The merge test of WAGovGlossaryReader.process_pdf: "processed_pairs and
\* self.should_merge_with_previous(term)"; the classifier is not called
\* when no pair is pending.
ShouldMergeWithPrevious ==
    /\ call.fn = "none"
    /\ \E term \in Candidates, pending \in BOOLEAN :
           LET Classified(r) ==
                   IF r \in {"true", "false"} THEN Returned(r) ELSE Raised(r)
           IN  Returns("should_merge_with_previous",
                       [term |-> term, pending |-> pending],
                       IF pending THEN Classified(should_merge_with_previous(term))
                       ELSE Returned("false"))

\* generate_dynamic_response(template, context)
GenerateDynamicResponse ==
    /\ call.fn = "none"
    /\ \E template \in Templates, context \in Contexts, rnd \in RandomChoices :
           Returns("generate_dynamic_response",
                   [template |-> template, context |-> context],
                   generate_dynamic_response(template, context, rnd))

\* The ordered pairs random.sample(questions, 2) can give.
Samples2(questions) ==
    { <<questions[i], questions[j]>> : i, j \in 1..Len(questions) } \
    { <<questions[i], questions[i]>> : i \in 1..Len(questions) }

\* create_natural_conversation(flow_type, context)
CreateNaturalConversation ==
    /\ call.fn = "none"
    /\ \E flow_type \in DOMAIN CONVERSATION_FLOWS, context \in {FlowContext, [k \in {} |-> ""]} :
           LET Drawn(possible) ==
                   \E r1 \in possible, r2 \in possible, r3 \in possible,
                      questions \in Samples2(CONVERSATION_FLOWS[flow_type].followup_questions) :
                       Returns("create_natural_conversation",
                               [flow_type |-> flow_type, context |-> context],
                               create_natural_conversation(flow_type, <<r1, r2, r3>>, questions))
           IN  Drawn(DynamicResponses(CONVERSATION_FLOWS[flow_type].possible_responses, context))

\* create_enhanced_dataset(output_file, **kwargs) of either module
CreateEnhancedDataset ==
    /\ call.fn = "none"
    /\ \E version \in {"main", "src"}, kwargs \in EnhancedCalls,
          pool \in [categories : 0..4, qa : 0..MaxPool, assembled : 0..MaxPool] :
           Returns("create_enhanced_dataset", [version |-> version, kwargs |-> kwargs],
                   create_enhanced_dataset(version, kwargs, pool))

\* The words the blocks handed to the capitalization-run segmenter are
\* made of, and the most words of a block.
ColumnWords == {"Stock", "Market", "a", "place"}

MaxWords == 5

\* ColumnGlossaryReader.extract_term_and_definition(text) on a page of one
\* block
ExtractTermAndDefinition ==
    /\ call.fn = "none"
    /\ \E n \in 2..MaxWords : \E words \in [1..n -> ColumnWords] :
           LET Ended(text, r) ==
                   Returns("extract_term_and_definition", [text |-> text],
                           IF r.exc # "" THEN Raised(r.exc) ELSE Returned(r.out))
               Page(text) == Ended(text, ColumnExtract(text))
           IN  Page(Join(words, " ") \o ".")

\* The lines of the pages handed to the two-column segmenter: term lines
\* closed by a colon, with a hyphen before the colon, with a hyphen only,
\* a line without separator, a term without definition and a header line;
\* and the most lines of a page.
HyphenLines ==
    {"Bond: A debt security.", "Long-term bond: A debt held for years.",
     "low-cost funds are cheap to hold.", "It pays interest yearly.", "Bond:",
     "Penn State Glossary"}

MaxLines == 3

\* HyphenPDFReader.extract_terms_and_definitions(text)
HyphenExtractTermsAndDefinitions ==
    /\ call.fn = "none"
    /\ \E n \in 1..MaxLines : \E lines \in [1..n -> HyphenLines] :
           LET Page(text) ==
                   Returns("HyphenPDFReader.extract_terms_and_definitions",
                           [text |-> text], Returned(HyphenExtract(text)))
           IN  Page(Join(lines, "\n"))

\* The lines of the pages handed to the hyphen segmenter: definitions that
\* start with a lowercase letter, a digit and an uppercase letter, a term
\* with a digit, a section letter, a term closed by an em dash.
WALines ==
    {"Bond - a debt security.", "Rule of 72 - 72 divided by the rate.",
     "B - bonds and bills.", "Yield ^ 5 percent a year.", "Fund - The money set aside."}

\* WAGovGlossaryReader.extract_terms_and_definitions(text)
WAGovExtractTermsAndDefinitions ==
    /\ call.fn = "none"
    /\ \E n \in 1..MaxLines : \E lines \in [1..n -> WALines] :
           LET Page(text) ==
                   Returns("WAGovGlossaryReader.extract_terms_and_definitions",
                           [text |-> text], Returned(WAGovExtract(text)))
           IN  Page(Join(lines, "\n"))

\* The entries of the glossaries handed to create_training_data: two that
\* share a word and one related to neither; and the most entries of a
\* glossary.
GlossaryEntries ==
    << Pair("Bond", "Debt security."), Pair("Bond fund", "Fund of debt securities."),
       Pair("Yield", "Income from it.") >>

MaxTerms == 10

\* The glossaries: a, b and c copies of the three entries, five entries or
\* more.
GlossaryLists ==
    { [i \in 1..(a + b + c) |->
          IF i <= a THEN GlossaryEntries[1]
          ELSE IF i <= a + b THEN GlossaryEntries[2] ELSE GlossaryEntries[3]] :
      a \in 0..MaxTerms, b \in 0..MaxTerms, c \in 0..MaxTerms }

\* create_training_data() on a glossary of terms: the comparison pairs it
\* appends to the training data. The greetings and the two conversations
\* of every term, built before the loop, read no state of the loop.
CreateTrainingData ==
    /\ call.fn = "none"
    /\ \E terms \in GlossaryLists :
           /\ Len(terms) >= 5
           /\ Len(terms) <= MaxTerms
           /\ \E r \in comparison_loop(terms, Len(terms) \div 5) :
                  Returns("create_training_data", [terms |-> terms], r)

NextCalls ==
    \/ ShouldMergeWithPrevious
    \/ GenerateDynamicResponse
    \/ CreateNaturalConversation
    \/ CreateEnhancedDataset
    \/ ExtractTermAndDefinition
    \/ HyphenExtractTermsAndDefinitions
    \/ WAGovExtractTermsAndDefinitions
    \/ CreateTrainingData

SpecCalls == Init /\ [][NextCalls]_vars
(***************************************************************************)
(* Properties                                                              *)
(***************************************************************************)

\* The entries of all from position i on that no earlier entry of all
\* matches in lower-cased term, in their order.
RECURSIVE FirstOccurrences(_, _)
FirstOccurrences(all, i) ==
    IF i > Len(all) THEN <<>>
    ELSE (IF \A j \in 1..(i - 1) : Lower(all[j].term) # Lower(all[i].term)
          THEN <<all[i]>>
          ELSE <<>>)
         \o FirstOccurrences(all, i + 1)

\* The readers whose de-duplication loop compares lower-cased terms.
LowerCasingReaders == {"Section", "Thomas", "Column", "WAGov"}

\* C1: for every reader and every document, the final pair list that is
\* returned or written holds no two entries whose terms are equal when
\* letter case is ignored.
C1_NoTwoTermsEqualIgnoringCase ==
    \A i, j \in 1..Len(pairs) :
        i < j => Lower(pairs[i].term) # Lower(pairs[j].term)

C3_SegmenterPairsPassLengthChecks ==
    /\ \A i \in 1..Len(segOut) :
           /\ Len(Normalise(segOut[i].term)) > 1
           /\ Len(Normalise(segOut[i].definition)) > 5
    /\ (pc # "build" /\ doc = <<"A: short">>) => segOut = <<>>

\* C4: from the two records with a blank line between them the colon-based
\* segmenter returns exactly the pair of Amortization and the pair of
\* Yield Curve, in that order.
C4_TwoRecordsGiveTwoPairs ==
    (pc # "build" /\ doc = TwoRecords /\ reader \in {"Section", "Thomas", "Hyphen"})
        => segOut =
             << Pair("Amortization",
                     "The process of spreading out a loan into a series of fixed payments over time."),
                Pair("Yield Curve",
                     "A graphical representation of interest rates on bonds of different maturities.") >>

\* The section reader has segmented the two records.
C4_TwoRecordsWitness ==
    /\ pc = "done"
    /\ reader = "Section"
    /\ doc = TwoRecords
    /\ Len(segOut) = 2
    /\ segOut[2].term = "Yield Curve"

C6_SegmentersNeverRaise == segExc = ""

\* The capitalisation-run segmenter met a block of a single one-letter
\* word and returned the empty list.
C6_SingleWordBlockWitness ==
    /\ pc = "extracted"
    /\ reader = "Column"
    /\ doc = <<"B">>
    /\ segOut = <<>>
    /\ raised = ""

\* C7: when a whole document gives no pair, the run ends without an
\* exception and the output file exists and holds exactly the warning line.
C7_NoPairsWritesWarningLine ==
    (pc \in {"done", "loaded"} /\ pairs = <<>>)
        => (raised = "" /\ fileExists /\ outfile = WarningLine)

\* C8: what the loader parses from a file written in the colon format is
\* the written pair list, pair by pair in the same order.
C8_LoaderReadsBackWrittenPairs ==
    (pc = "loaded" /\ reader # "Line" /\ pairs # <<>>) => loaded = pairs

\* C9: no term written to an output file holds a colon.
C9_NoColonInWrittenTerm ==
    fileExists => \A i \in 1..Len(pairs) : ~Contains(pairs[i].term, ":")

(***************************************************************************)
(* Properties of the readers on the file system and of the batch loops     *)
(***************************************************************************)

\* C11: when a reader is constructed on a URL and a file with the URL's
\* filename is already in financial_pdfs/, the construction issues no HTTP
\* request and the reader reads the file that was there.
C11_CachedUrlIsNotRequested ==
    (last.op = "__init__" /\ last.cached)
        => /\ last.requests = 0
           /\ last.raised = ""
           /\ rdr # None
           /\ rdr[1].pdf_path = CachePath(last.cls, last.source)

\* C12: a call that meets an input error (a missing local file, a file
\* that is not a readable PDF, an HTTP failure) ends with an exception,
\* after at most one request, and returns nothing.
C12_InputErrorRaises ==
    last.error # "" => (last.raised # "" /\ last.requests <= 1)

\* The elements of a sequence.
Range(s) == {s[i] : i \in 1..Len(s)}

\* The lines of log that start with prefix, in order.
LinesWith(log, prefix) == SelectSeq(log, LAMBDA l : StartsWith(l, prefix))

\* "Processing: p" for every p of paths, in order.
RECURSIVE ProcessingLines(_, _)
ProcessingLines(prefix, paths) ==
    IF paths = <<>> THEN <<>>
    ELSE <<prefix \o paths[1]>> \o ProcessingLines(prefix, Tail(paths))

\* C13: the loop of pdf_reader.main has taken up every document before its
\* position, whatever failed before, each failure logged; and a run of
\* combine_files has taken up every text file glob gave, in order, each
\* unreadable one logged.
C13_FailureDoesNotAbortBatch ==
    /\ LinesWith(mainlog, "Processing PDF from: ")
         = ProcessingLines("Processing PDF from: ", SubSeq(test_paths, 1, main_i - 1))
    /\ combined.runs > 0 =>
         /\ LinesWith(combined.log, "Processing: ")
              = ProcessingLines("Processing: ", combined.text_files)
         /\ \A p \in Range(combined.text_files) :
              combined.before[p] = Garbage
                  <=> ("Error reading file " \o p) \in Range(combined.log)

\* A run of combine_files met a file that could not be read before the
\* last file, and pdf_reader.main went on after a failed first document.
C13_FailureBeforeLastWitness ==
    /\ combined.runs > 0
    /\ Len(combined.text_files) >= 2
    /\ combined.before[combined.text_files[1]] = Garbage
    /\ main_i = Len(test_paths) + 1
    /\ ("Failed to process PDF " \o test_paths[1]) \in Range(mainlog)

\* The text a file contributes: its stripped content, a blank line, the
\* line of 80 "=" and a line end.
Contribution(content) ==
    Strip(content) \o "\n\n"
    \o "================================================================================"
    \o "\n"

\* The contributions of the files of paths that can be read and are not
\* blank, in order.
RECURSIVE Contributions(_, _)
Contributions(files, paths) ==
    IF paths = <<>> THEN <<>>
    ELSE (IF files[paths[1]] # Garbage /\ Strip(files[paths[1]]) # ""
          THEN <<Contribution(files[paths[1]])>> ELSE <<>>)
         \o Contributions(files, Tail(paths))

\* C14: the file combine_files writes is, for each text file of the
\* directory that is not excluded and not blank, in the order glob gave,
\* its stripped content followed by the line of 80 "="; the excluded file
\* is not among them, and no file is written or changed when nothing was
\* collected.
C14_CombinedFileIsContentsAndSeparators ==
    combined.runs > 0 =>
        /\ Range(combined.text_files)
             = { p \in DOMAIN combined.before :
                   /\ StartsWith(p, PdfDir)
                   /\ EndsWith(p, ".txt")
                   /\ p # PdfDir \o "cfpb_building_block_activities_glossary.txt" }
        /\ combined.written
             <=> Contributions(combined.before, combined.text_files) # <<>>
        /\ combined.written =>
             /\ output_path \in DOMAIN fs
             /\ fs[output_path]
                  = Join(Contributions(combined.before, combined.text_files), "\n")
        /\ ~combined.written =>
             IF output_path \in DOMAIN combined.before
             THEN fs[output_path] = combined.before[output_path]
             ELSE output_path \notin DOMAIN fs

\* combine_files ran on a directory holding the excluded file and a text
\* file with content, and wrote the combined file.
C14_ExcludedFilePresentWitness ==
    /\ combined.runs > 0
    /\ combined.written
    /\ (PdfDir \o "cfpb_building_block_activities_glossary.txt") \in DOMAIN combined.before
    /\ combined.before[PdfDir \o "cfpb_building_block_activities_glossary.txt"]
         = "Bond: A debt security.\n\n"

(***************************************************************************)
(* Properties of the calls                                                 *)
(***************************************************************************)

\* The replacement fields of a template without doubled braces.
RECURSIVE Placeholders(_, _)
Placeholders(template, i) ==
    LET Close(o, c) ==
            IF c = 0 THEN {}
            ELSE {SubSeq(template, o + 1, c - 1)} \cup Placeholders(template, c + 1)
        Open(o) == IF o = 0 THEN {} ELSE Close(o, FindFrom(template, "}", o + 1))
    IN  Open(FindFrom(template, "{", i))

\* C15: generate_dynamic_response returns a string that is not empty and
\* holds no "{" for every template whose placeholders are built-in
\* replacement names or keys of the context, such as the template of the
\* test with the context of the test.
C15_PlaceholdersOfContextAreReplaced ==
    (/\ call.fn = "generate_dynamic_response"
     /\ ~Contains(call.args.template, "{{")
     /\ Placeholders(call.args.template, 1) # {}
     /\ Placeholders(call.args.template, 1)
          \subseteq {"risk_level", "allocation", "explanation", "analysis",
                     "alternative", "details", "reason"}
                    \cup DOMAIN call.args.context)
        => /\ ret.exc = ""
           /\ ret.value # ""
           /\ ~Contains(ret.value, "{")

\* C16: for every flow type of CONVERSATION_FLOWS, every turn
\* create_natural_conversation returns has one free message and one guided
\* message, and every turn after the first a previous_utterance that is
\* not empty.
C16_TurnsAreWellFormed ==
    call.fn = "create_natural_conversation"
        => /\ ret.exc = ""
           /\ Len(ret.value) = 3
           /\ \A i \in 1..Len(ret.value) :
                /\ Len(ret.value[i].free_messages) = 1
                /\ Len(ret.value[i].guided_messages) = 1
                /\ i > 1 => /\ ret.value[i].previous_utterance # <<>>
                            /\ ret.value[i].previous_utterance
                                 = ret.value[i - 1].free_messages

\* create_natural_conversation returned a conversation of the market
\* volatility flow whose last question is the one with a placeholder.
C16_VolatilityFlowWitness ==
    /\ call.fn = "create_natural_conversation"
    /\ call.args.flow_type = "market_volatility"
    /\ ret.exc = ""
    /\ ret.value[3].free_messages = <<"Have you considered diversifying into {alternative}?">>

\* C17: create_enhanced_dataset, called with the keyword arguments of the
\* test, returns a list of at most max_samples samples.
C17_TestCallReturnsSamples ==
    (/\ call.fn = "create_enhanced_dataset"
     /\ DOMAIN call.args.kwargs
          = {"max_samples", "include_market_context", "max_conversation_turns"})
        => /\ ret.exc = ""
           /\ Len(ret.value) <= call.args.kwargs["max_samples"]

\* C18: the classifier returns a boolean for every candidate, the empty
\* and the white-space-only string included: true exactly when a term is
\* pending and the first word of the candidate, lower-cased, is a
\* continuation word or its first character is a lower-case letter.
C18_ClassifierIsTotal ==
    call.fn = "should_merge_with_previous"
        => /\ ret.exc = ""
           /\ ret.value = "true"
                <=> /\ call.args.pending
                    /\ call.args.term # ""
                    /\ \/ Ch(call.args.term, 1) \in LowerSet
                       \/ /\ SplitWords(Lower(call.args.term)) # <<>>
                          /\ SplitWords(Lower(call.args.term))[1] \in
                               { "a", "an", "the", "you", "it", "they", "this", "that",
                                 "these", "those", "usually", "in", "therefore", "when",
                                 "can", "since", "also", "if", "however", "because",
                                 "while", "although", "unless", "moreover", "furthermore" }

(***************************************************************************)
(* Properties of the classification of lines                               *)
(***************************************************************************)

\* No line of lines that meets the continuation heuristic while a term is
\* pending opens a new pair.
HeuristicWins(trace, lines) ==
    \A i \in 1..Len(lines) :
        (trace[i].pending /\ should_merge_with_previous(Strip(lines[i])) = "true")
            => trace[i].label # "term"

\* C19: in the section reader and in the hyphen reader, a line that
\* matches the new-term pattern and meets the continuation heuristic (first
\* word a continuation word, or a lower-case first letter) while a term is
\* pending does not open a new pair.
C19_HeuristicWinsOverTermPattern ==
    /\ (reader = "Section" /\ \A i \in 1..Len(doc) : doc[i] # PageBreak)
         => HeuristicWins(Classification(SectionStep, SectionLabel, doc), doc)
    /\ (reader = "Hyphen" /\ \A i \in 1..Len(doc) : doc[i] # PageBreak)
         => HeuristicWins(
                Classification(HyphenStep, HyphenLabel,
                               SplitOn(Join(HyphenRawText(doc), "\n\n"), "\n")),
                SplitOn(Join(HyphenRawText(doc), "\n\n"), "\n"))

\* lines without line i.
RemoveAt(lines, i) == SubSeq(lines, 1, i - 1) \o SubSeq(lines, i + 1, Len(lines))

\* Taking a continuation line out of lines leaves the classification of
\* every later line as it was; with and without are the classifications
\* of lines and of lines without line i.
SameAfterRemoval(with, without, i) ==
    with[i].label = "continuation"
        => \A j \in (i + 1)..Len(with) : with[j].label = without[j - 1].label

\* C20: for the base reader and the section reader, for every line of the
\* text the loop classifies as a continuation, the loop on the text without
\* that line gives every later line the classification it had.
C20_RemovingContinuationKeepsLabels ==
    /\ (reader = "PDF" /\ \A i \in 1..Len(doc) : doc[i] # PageBreak /\ HasText(doc[i]))
         => \A i \in 1..Len(doc) :
              (/\ Len(PDFLoopLines(Join(doc, "\n"))) = Len(doc)
               /\ Len(PDFLoopLines(Join(RemoveAt(doc, i), "\n"))) = Len(doc) - 1)
                 => SameAfterRemoval(
                        Classification(PDFStep, PDFLabel, PDFLoopLines(Join(doc, "\n"))),
                        Classification(PDFStep, PDFLabel,
                                       PDFLoopLines(Join(RemoveAt(doc, i), "\n"))),
                        i)
    /\ (reader = "Section" /\ \A i \in 1..Len(doc) : doc[i] # PageBreak)
         => \A i \in 1..Len(doc) :
              SameAfterRemoval(Classification(SectionStep, SectionLabel, doc),
                               Classification(SectionStep, SectionLabel, RemoveAt(doc, i)),
                               i)

(***************************************************************************)
(* Properties of the capitalization-run segmenter                          *)
(***************************************************************************)

\* A capitalized word: an uppercase letter, then lowercase only.
Capitalized(word) ==
    /\ Ch(word, 1) \in UpperSet
    /\ Len(word) > 1 => IsLowerStr(SubSeq(word, 2, Len(word)))

\* The block whose first k + 1 words are capitalized and whose next word
\* is not.
CapitalizedRun(words, k) ==
    /\ Len(words) > k + 1
    /\ \A i \in 1..(k + 1) : Capitalized(words[i])
    /\ ~Capitalized(words[k + 2])

\* C21: of a block of two, three or four capitalized words and then a word
\* that is not capitalized, the term is the first one, two or three words
\* and the definition starts with the words that remain.
C21_LadderPicksTheTerm ==
    call.fn = "extract_term_and_definition"
        => \A k \in 1..3 :
              CapitalizedRun(SplitWords(call.args.text), k)
                  => /\ ret.exc = ""
                     /\ ret.value
                          = <<Pair(Join(SubSeq(SplitWords(call.args.text), 1, k), " "),
                                   Join(SubSeq(SplitWords(call.args.text), k + 1,
                                               Len(SplitWords(call.args.text))), " "))>>

\* C22: the first word of every term of the capitalization-run segmenter
\* starts with an uppercase letter and is no continuation word, whatever
\* its letter case.
C22_TermsStartUppercaseAndContinueNothing ==
    reader = "Column"
        => \A i \in 1..Len(segOut) :
              /\ Ch(SplitWords(segOut[i].term)[1], 1) \in UpperSet
              /\ Lower(SplitWords(segOut[i].term)[1])
                   \notin {Lower(w) : w \in CONTINUATION_WORDS}

\* C23: the last character that is not white space of every definition the
\* capitalization-run segmenter returns is a period: a pending pair whose
\* definition ends otherwise is not returned.
C23_ColumnDefinitionsEndWithPeriod ==
    reader = "Column"
        => \A i \in 1..Len(segOut) :
              /\ Strip(segOut[i].definition) # ""
              /\ Ch(Strip(segOut[i].definition), Len(Strip(segOut[i].definition))) = "."

\* The page ends with a block without a period, which opens a term; the
\* pair of the block before it is returned alone.
C23_PendingPairDroppedWitness ==
    /\ reader = "Column"
    /\ doc = <<"Fund - money set aside.", "A: short">>
    /\ segExc = ""
    /\ segOut = <<Pair("Fund", "- money set aside.")>>

(***************************************************************************)
(* Properties of the two-column segmenter                                  *)
(***************************************************************************)

\* The term and the start of the definition of a line that holds a colon:
\* the text before the first colon and the text after it; <<>> for a line
\* without colon.
ColonRule(line) ==
    LET Cut(p) ==
            IF p = 0 THEN <<>>
            ELSE <<SubSeq(line, 1, p - 1), SubSeq(line, p + 1, Len(line))>>
    IN  Cut(FindFrom(line, ":", 1))

\* The same for the first colon, en dash or hyphen of a line, which has a
\* character before it and text after it.
SeparatorRule(line) ==
    LET Cut(p) ==
            IF p < 2 \/ Strip(SubSeq(line, p + 1, Len(line))) = "" THEN <<>>
            ELSE <<SubSeq(line, 1, p - 1), SubSeq(line, p + 1, Len(line))>>
    IN  Cut(FirstIn(line, HyphenSeparators, 1, Len(line)))

\* The pairs of a page by a rule for term lines: a term line closes the
\* pending pair and opens one; any other line joins the pending
\* definition unless it matches ^[A-Z][^:~-]+[:~-] (~ the en dash); header
\* lines are left out.
RulePairs(Rule(_), lines) ==
    LET Flush(st) ==
            IF Truthy(st.term) /\ st.defs # <<>>
            THEN Append(st.out, Pair(Strip(st.term[1]), Strip(Join(st.defs, " "))))
            ELSE st.out
        RECURSIVE Scan(_, _)
        Scan(st, i) ==
            LET Line(m) ==
                    IF m # <<>>
                    THEN Scan([term |-> Some(m[1]), defs |-> <<m[2]>>, out |-> Flush(st)],
                              i + 1)
                    ELSE IF Truthy(st.term) /\ ~HyphenLooksLikeTerm(lines[i])
                    THEN Scan([st EXCEPT !.defs = Append(st.defs, lines[i])], i + 1)
                    ELSE Scan(st, i + 1)
            IN  IF i > Len(lines) THEN Flush(st)
                ELSE IF \/ Contains(lines[i], "Penn State")
                        \/ Contains(lines[i], "Financial and Life Skills Center")
                THEN Scan(st, i + 1)
                ELSE Line(Rule(lines[i]))
    IN  Scan(SectionStart, 1)

\* C24 as stated: the pairs the two-column segmenter returns are those of
\* the colon rule, a line with a colon opening a pair and a line without
\* one joining the pending definition unless it looks like a term, after
\* the clean-up of the pairs.
C24_ColonLinesOpenPairs ==
    call.fn = "HyphenPDFReader.extract_terms_and_definitions"
        => ret.value
             = NormaliseAll(SelectSeq(
                   RulePairs(ColonRule, StrippedNonEmpty(SplitOn(call.args.text, "\n"))),
                   HyphenKeep))

\* C24 as amended: the pairs the two-column segmenter returns are those of
\* the separator rule, the term being the text before the first colon, en
\* dash or hyphen of the line.
C24_SeparatorLinesOpenPairs ==
    call.fn = "HyphenPDFReader.extract_terms_and_definitions"
        => ret.value
             = NormaliseAll(SelectSeq(
                   RulePairs(SeparatorRule, StrippedNonEmpty(SplitOn(call.args.text, "\n"))),
                   HyphenKeep))

\* A line with a hyphen and no colon below a term line opened a pair of
\* its own.
C24_HyphenLineOpensPairWitness ==
    /\ call.fn = "HyphenPDFReader.extract_terms_and_definitions"
    /\ call.args.text = "Bond: A debt security.\nlow-cost funds are cheap to hold."
    /\ ret.value = <<Pair("Bond", "A debt security."),
                     Pair("low", "cost funds are cheap to hold.")>>

(***************************************************************************)
(* Properties of the hyphen segmenter                                      *)
(***************************************************************************)

\* The matches of the pattern on a page, term and definition cleaned as
\* the loop cleans them, less the section letters.
WAKeptMatches(text) ==
    LET Cleaned(ms) ==
            [i \in 1..Len(ms) |->
                Pair(RStripDotSpace(Strip(ms[i].term)),
                     CollapseSpaces(Strip(ms[i].definition)))]
        IsTerm(m) == ~(Len(m.term) = 1 /\ m.term \in UpperSet)
    IN  SelectSeq(Cleaned(WAMatches(text, 1)), IsTerm)

\* Match i of ms is merged: its definition starts with a lowercase letter
\* and a pair is pending.
WAMerged(ms, i) ==
    /\ i > 1
    /\ ms[i].definition # ""
    /\ Ch(ms[i].definition, 1) \in LowerSet

\* The definitions of the matches from i on, up to the next match that is
\* not merged.
RECURSIVE WARun(_, _)
WARun(ms, i) ==
    <<ms[i].definition>>
    \o (IF i < Len(ms) /\ WAMerged(ms, i + 1) THEN WARun(ms, i + 1) ELSE <<>>)

\* The pairs to expect of the matches ms: one of every match not merged,
\* in order, its definition followed by those merged into it.
WAExpected(ms) ==
    LET Entry(m) == Pair(ms[m].term, Join(WARun(ms, m), " "))
        RECURSIVE From(_)
        From(i) ==
            IF i > Len(ms) THEN <<>>
            ELSE IF WAMerged(ms, i) THEN From(i + 1)
            ELSE <<Entry(i)>> \o From(i + 1)
    IN  From(1)

\* C25: a match whose definition begins with a lowercase letter while a
\* pair is pending gives no pair of its own, its definition is appended to
\* the pending one; the pairs returned are as many as the matches that
\* are neither section letters nor merged.
C25_LowercaseDefinitionsAreMerged ==
    call.fn = "WAGovGlossaryReader.extract_terms_and_definitions"
        => /\ ret.value = WAExpected(WAKeptMatches(call.args.text))
           /\ Len(ret.value)
                = Cardinality({i \in 1..Len(WAKeptMatches(call.args.text)) :
                                  ~WAMerged(WAKeptMatches(call.args.text), i)})

\* Three matches, the second a section letter, the third with a definition
\* in lowercase: one pair is returned, with both definitions.
C25_MergedAfterMarkerWitness ==
    /\ call.fn = "WAGovGlossaryReader.extract_terms_and_definitions"
    /\ call.args.text
         = "Bond - a debt security.\nB - bonds and bills.\nBond - a debt security."
    /\ ret.value = <<Pair("Bond", "a debt security. a debt security.")>>

(***************************************************************************)
(* Properties of the scans: flush and reset                                *)
(***************************************************************************)

\* out is the list of st with the pending pair of st appended as one pair,
\* when st has a term and definition parts; else the list of st.
PendingFlushed(st, out) ==
    IF Truthy(st.term) /\ st.defs # <<>>
    THEN /\ Len(out) = Len(st.out) + 1
         /\ SubSeq(out, 1, Len(st.out)) = st.out
         /\ out[Len(out)].term = st.term[1]
         /\ Strip(out[Len(out)].definition) = Strip(Join(st.defs, " "))
    ELSE out = st.out

\* The scan over inputs with the step Step, IsNew telling the inputs that
\* are new terms, Flush the flush at the end of the scan and Clean the
\* clean-up of the pairs: at a new term the pending pair is flushed and
\* the definition is the one the new term has from the start state; at
\* any other input the term and the list stay; at the end the pending pair
\* is flushed and result is the list cleaned.
FlushAndReset(Step(_, _), IsNew(_), Flush(_), Clean(_), inputs, result) ==
    LET Stepped(st, next, input) ==
            IF IsNew(input)
            THEN /\ next.term # None
                 /\ next.defs = Step(SectionStart, input).defs
                 /\ PendingFlushed(st, next.out)
            ELSE /\ next.term = st.term
                 /\ next.out = st.out
        RECURSIVE Walk(_, _)
        Walk(st, i) ==
            IF i > Len(inputs)
            THEN /\ PendingFlushed(st, Flush(st))
                 /\ result = Clean(Flush(st))
            ELSE /\ Stepped(st, Step(st, inputs[i]), inputs[i])
                 /\ Walk(Step(st, inputs[i]), i + 1)
    IN  Walk(SectionStart, 1)

\* The inputs of the loop of LinePDFReader.extract_terms_and_definitions:
\* the stripped lines of every block.
LineLoopInputs(text) ==
    LET Lines(blocks) ==
            [k \in 1..Len(blocks) |-> StrippedNonEmpty(SplitOn(blocks[k], "\n"))]
    IN  Lines(LineBlocks(clean_headers_footers(text), 1, 1))

\* C26: in the scans of the section reader, the line reader and the base
\* reader, a new term flushes the pending term and definition parts as one
\* pair and starts a fresh definition, the end of the scan flushes the
\* pending pair, and nothing else adds a pair: every opened term that has
\* definition parts is flushed once, and no part goes to two terms.
C26_NewTermFlushesAndResets ==
    /\ (reader = "Section" /\ Len(PageTexts(doc)) = 1)
         => LET IsNew(line) == SectionLabel(SectionStart, line) = "term"
                Clean(out) == NormaliseAll(SelectSeq(out, SectionKeep))
                Stripped(lines) == [i \in 1..Len(lines) |-> Strip(lines[i])]
            IN  FlushAndReset(SectionStep, IsNew, FlushPending, Clean,
                              Stripped(SplitOn(PageTexts(doc)[1], "\n")), segOut)
    /\ reader = "Line"
         => LET IsNew(lines) == lines # <<>> /\ LineIsTerm(lines[1])
                Clean(out) == out
            IN  FlushAndReset(LineStep, IsNew, FlushPending, Clean,
                              LineLoopInputs(Join(doc, "\n")), segOut)
    /\ (reader = "PDF" /\ PageTexts(doc) # <<>>)
         => LET IsNew(line) == PDFLabel(SectionStart, line) = "term"
                Clean(out) ==
                    [i \in 1..Len(SelectSeq(out, PDFKeep)) |->
                        Pair(Strip(SelectSeq(out, PDFKeep)[i].term),
                             Strip(PDFCleanDefinition(
                                       SelectSeq(out, PDFKeep)[i].definition)))]
                Stripped(lines) == [i \in 1..Len(lines) |-> Strip(lines[i])]
            IN  FlushAndReset(PDFStep, IsNew, PDFFlush, Clean,
                              Stripped(PDFLoopLines(Join(PageTexts(doc), "\n\n"))),
                              segOut)

\* The section reader met a second term while a pair with two definition
\* parts was pending.
C26_SecondTermFlushesWitness ==
    /\ reader = "Section"
    /\ doc = <<"ROI: Return on investment.", "A big dog.", "roi: ratio of net income.">>
    /\ segOut = <<Pair("ROI", "Return on investment. A big dog."),
                  Pair("roi", "ratio of net income.")>>

(***************************************************************************)
(* Properties of the pairs of every reader                                 *)
(***************************************************************************)

\* C27: the term and the definition of every pair a reader returns or
\* writes are normalised: no white space at either end, and no white space
\* within but single spaces.
C27_OutputPairsAreNormalised ==
    reader # "none"
        => \A i \in 1..Len(pairs) :
              /\ pairs[i].term = Normalise(pairs[i].term)
              /\ pairs[i].definition = Normalise(pairs[i].definition)

(***************************************************************************)
(* combine_files run twice                                                 *)
(***************************************************************************)

\* C28: a second run of combine_files over the glossary files of the
\* first run, unchanged and met in the same order, leaves the combined file
\* as the first run wrote it.
C28_CombineFilesIsIdempotent ==
    [][(/\ combined.runs = 1
        /\ combined'.runs = 2
        /\ combined.written
        /\ \A p \in DOMAIN fs \ {output_path} :
              p \in DOMAIN combined.before /\ combined.before[p] = fs[p]
        /\ LET IsGlossary(p) == p # output_path
           IN  SelectSeq(combined'.text_files, IsGlossary) = combined.text_files)
          => fs'[output_path] = fs[output_path]]_vars

(***************************************************************************)
(* The merge loop of WAGovGlossaryReader.process_pdf                       *)
(***************************************************************************)

\* C29: every pair of the segmenter whose term is no continuation has an
\* entry with its term in the processed list, before duplicates are
\* removed.
C29_ColonSplitKeepsTheTerm ==
    (reader = "WAGov" /\ raised = "")
        => \A i \in 1..Len(segOut) :
              should_merge_with_previous(segOut[i].term) = "false"
                  => \E j \in 1..Len(raw) : raw[j].term = segOut[i].term

(***************************************************************************)
(* The comparison loop of create_training_data                             *)
(***************************************************************************)

\* C30: for every glossary, with repeated entries or without, the
\* comparison loop ends without an exception after at most len(terms) // 5
\* iterations, the two terms of every comparison pair differ and no entry
\* of the glossary is used in more pairs than the glossary holds it.
C30_ComparisonLoopUsesEntriesOnce ==
    call.fn = "create_training_data"
        => /\ ret.exc = ""
           /\ Len(ret.value) <= Len(call.args.terms) \div 5
           /\ \A i \in 1..Len(ret.value) : ret.value[i].term1 # ret.value[i].term2
           /\ \A e \in Range(call.args.terms) :
                Cardinality({i \in 1..Len(ret.value) : ret.value[i].term1 = e})
                + Cardinality({i \in 1..Len(ret.value) : ret.value[i].term2 = e})
                    <= Cardinality({j \in 1..Len(call.args.terms) : call.args.terms[j] = e})
====
